---- MODULE Spec2Model ----
(***************************************************************************)
(* A model of the expression-data core of bioinformatics_project:          *)
(*   geo_loader/utils.py        schema / label inference, probe collapse   *)
(*   geo_loader/geo_loader.py   load_single_gse, merge_and_batch_correct   *)
(*   geo_loader/data_loader.py  load_ad_training_data / load_oa_...        *)
(*   pipeline/differential_expression.py                                   *)
(*                                                                         *)
(* Text is a sequence of one-character strings, so that strip(), lower()   *)
(* and the substring tests are computed character by character.  A cell of *)
(* a matrix is <<>> (NaN) or a fraction <<numerator, denominator>> in      *)
(* lowest terms, so that a mean is exact.                                  *)
(***************************************************************************)
EXTENDS Integers, Sequences, FiniteSets, TLC

VARIABLES
    pc,             \* position of the operation under analysis
    ids,            \* data_loader: the requested cohort ids
    next_id,        \* data_loader: index of the next id of the for loop
    expr_list,      \* list of cohort matrices (merge input)
    label_list,     \* list of cohort label vectors (merge input)
    load_warnings,  \* data_loader: ids reported by warnings.warn
    batch_ids,      \* data_loader: the batch_ids handed to the merger
    merge_calls,    \* number of invocations of merge_and_batch_correct
    merge_status,   \* "none", "returned" or "ValueError"
    expr_merged,    \* matrix returned by merge_and_batch_correct
    labels_merged,  \* labels returned by merge_and_batch_correct
    common_genes,   \* merge: the intersected column list
    batch_vec,      \* merge: the batch vector built for py_combat
    combat_calls,   \* merge: number of invocations of py_combat
    merge_warnings, \* merge: number of "Batch correction skipped" warnings
    warning_filter, \* the warnings filter in force: "default" or "ignore"
    warnings_shown, \* merge: number of warnings the filter lets through
    first_columns,  \* column list returned by an earlier merge of the list
    probe_expr,     \* collapse_probes_to_genes: the matrix keyed by identifier
    probe_to_gene,  \* collapse_probes_to_genes: the ProbeToGeneMap
    gene_expr,      \* collapse_probes_to_genes: the returned matrix
    gse,            \* load_single_gse: the dataset GEOparse.get_GEO yields
    load_status,    \* load_single_gse: "none", "returned" or the exception
    load_labels,    \* load_single_gse: the returned labels
    resolved_cols,  \* load_single_gse: <<id_col_s, val_col_s>>, <<>> for None
    gsm_metadata,   \* get_sample_labels: the sample's metadata dictionary
    disease_label,  \* get_sample_labels: the disease label of the cohort
    sample_label,   \* get_sample_labels: the returned label
    expression_data,  \* differential_expression_analysis: the matrix
    labels,           \* differential_expression_analysis: label per row
    pvalue_threshold, \* differential_expression_analysis: argument
    logfc_threshold,  \* differential_expression_analysis: argument
    de_status,        \* "none", "returned" or "ValueError"
    genes_done,       \* number of iterations of the per-gene loop executed
    df_results,       \* the returned table, one record per gene
    degs1,          \* find_common_degs: first DifferentialResult table
    degs2,          \* find_common_degs: second DifferentialResult table
    co_degs,        \* find_common_degs: the returned dictionary
    infer_table,    \* column inference: the table handed to the functions
    id_col,         \* infer_id_column: its outcome, <<>> before the call
    val_col         \* infer_value_column: its outcome, <<>> before the call

mergeVars == <<expr_list, label_list, merge_calls, merge_status, expr_merged,
               labels_merged, common_genes, batch_vec, combat_calls,
               merge_warnings, warning_filter, warnings_shown, first_columns>>
trainVars == <<ids, next_id, load_warnings, batch_ids>>
collapseVars == <<probe_expr, probe_to_gene, gene_expr>>
loadVars == <<gse, load_status, load_labels, resolved_cols>>
labelVars == <<gsm_metadata, disease_label, sample_label>>
deVars == <<expression_data, labels, pvalue_threshold, logfc_threshold,
            de_status, genes_done, df_results>>
commonVars == <<degs1, degs2, co_degs>>
inferVars == <<infer_table, id_col, val_col>>
vars == <<pc, trainVars, mergeVars, collapseVars, loadVars, labelVars,
          deVars, commonVars, inferVars>>

----------------------------------------------------------------------------
(* Bounds of the model *)

MaxCohorts == 3
MaxRows == 2
MaxVals == 2
MaxSamples == 3
MaxGsms == 2
MaxIds == 3
MaxCols == 3

----------------------------------------------------------------------------
(* Generic helpers *)

Range(s) == {s[i] : i \in 1..Len(s)}

RECURSIVE SumSeq(_)
SumSeq(s) == IF s = <<>> THEN 0 ELSE Head(s) + SumSeq(Tail(s))

RECURSIVE Flatten(_)
Flatten(ss) == IF ss = <<>> THEN <<>> ELSE Head(ss) \o Flatten(Tail(ss))

\* all enumerations without repetition of the finite set S (list(set) orders)
Perms(S) ==
    {p \in [1..Cardinality(S) -> S] : \A i, j \in 1..Cardinality(S) :
                                          i /= j => p[i] /= p[j]}

SeqsUpTo(S, n) == UNION {[1..k -> S] : k \in 0..n}

\* [x for x in s if Test(x)]
Filter(s, Test(_)) == SelectSeq(s, Test)

----------------------------------------------------------------------------
(* Text: a string is a sequence of one-character strings *)

Alphabet ==
    <<" ", "-", "/", "0", "1", "2", "3", "4", "5", "6", "7", "8", "9",
      "A", "B", "C", "D", "E", "F", "G", "H", "I", "J", "K", "L", "M",
      "N", "O", "P", "Q", "R", "S", "T", "U", "V", "W", "X", "Y", "Z", "_",
      "a", "b", "c", "d", "e", "f", "g", "h", "i", "j", "k", "l", "m",
      "n", "o", "p", "q", "r", "s", "t", "u", "v", "w", "x", "y", "z">>

\* ord(c), up to an order-preserving renumbering
Ord(c) == CHOOSE i \in 1..Len(Alphabet) : Alphabet[i] = c

IsUpper(c) == Ord("A") <= Ord(c) /\ Ord(c) <= Ord("Z")
IsLower(c) == Ord("a") <= Ord(c) /\ Ord(c) <= Ord("z")

\* str.lower() and str.upper()
Lower(s) ==
    [i \in 1..Len(s) |->
        IF IsUpper(s[i]) THEN Alphabet[Ord(s[i]) - Ord("A") + Ord("a")]
        ELSE s[i]]
Upper(s) ==
    [i \in 1..Len(s) |->
        IF IsLower(s[i]) THEN Alphabet[Ord(s[i]) - Ord("a") + Ord("A")]
        ELSE s[i]]

\* str.strip()
RECURSIVE LStrip(_)
LStrip(s) == IF s /= <<>> /\ Head(s) = " " THEN LStrip(Tail(s)) ELSE s
RECURSIVE RStrip(_)
RStrip(s) ==
    IF s /= <<>> /\ s[Len(s)] = " " THEN RStrip(SubSeq(s, 1, Len(s) - 1))
    ELSE s
Strip(s) == RStrip(LStrip(s))

\* pat in text
Contains(text, pat) ==
    \E i \in 1..(Len(text) - Len(pat) + 1) :
        SubSeq(text, i, i + Len(pat) - 1) = pat

\* sep.join(parts)
RECURSIVE Join(_, _)
Join(sep, parts) ==
    IF parts = <<>> THEN <<>>
    ELSE IF Len(parts) = 1 THEN parts[1]
    ELSE parts[1] \o sep \o Join(sep, Tail(parts))

\* a < b for strings (code-point order)
RECURSIVE StrLess(_, _)
StrLess(a, b) ==
    IF b = <<>> THEN FALSE
    ELSE IF a = <<>> THEN TRUE
    ELSE IF Head(a) /= Head(b) THEN Ord(Head(a)) < Ord(Head(b))
    ELSE StrLess(Tail(a), Tail(b))

\* sorted(S) for a finite set of strings
RECURSIVE SortedStrs(_)
SortedStrs(S) ==
    IF S = {} THEN <<>>
    ELSE LET m == CHOOSE x \in S : \A y \in S \ {x} : StrLess(x, y)
         IN  <<m>> \o SortedStrs(S \ {m})

----------------------------------------------------------------------------
(* Fractions *)

RECURSIVE Gcd(_, _)
Gcd(a, b) == IF b = 0 THEN a ELSE Gcd(b, a % b)

\* total / count in lowest terms (total >= 0, count > 0)
Fraction(total, count) ==
    LET g == Gcd(total, count) IN <<total \div g, count \div g>>

----------------------------------------------------------------------------
(* Cells, frames and series *)

NaN == <<>>
Num(v) == <<v, 1>>

\* pd.DataFrame(): no rows, no columns
EmptyFrame == [columns |-> <<>>, index |-> <<>>, values |-> <<>>]
\* pd.Series(dtype=object)
EmptySeries == [index |-> <<>>, values |-> <<>>]

NRows(df) == Len(df.index)
NCols(df) == Len(df.columns)

ColPos(df, g) == CHOOSE c \in 1..Len(df.columns) : df.columns[c] = g

\* df[keep]: the columns named by keep, in keep's order
SelectColumns(df, keep) ==
    [columns |-> keep,
     index   |-> df.index,
     values  |-> [r \in 1..NRows(df) |->
                    [c \in 1..Len(keep) |-> df.values[r][ColPos(df, keep[c])]]]]

\* pd.concat(frames, axis=0) of at least one frame: the union of the columns
\* in order of first appearance, a cell being NaN where a frame lacks it
RECURSIVE ConcatColumns(_, _)
ConcatColumns(seen, frames) ==
    IF frames = <<>> THEN seen
    ELSE ConcatColumns(
             seen \o SelectSeq(Head(frames).columns,
                               LAMBDA g : g \notin Range(seen)),
             Tail(frames))

Reindexed(df, cols) ==
    [r \in 1..NRows(df) |->
        [c \in 1..Len(cols) |->
            IF cols[c] \in Range(df.columns)
            THEN df.values[r][ColPos(df, cols[c])] ELSE NaN]]

ConcatFrames(frames) ==
    LET cols == ConcatColumns(<<>>, frames)
    IN  [columns |-> cols,
         index   |-> Flatten([i \in 1..Len(frames) |-> frames[i].index]),
         values  |-> Flatten([i \in 1..Len(frames) |->
                                 Reindexed(frames[i], cols)])]

ConcatSeries(series) ==
    [index  |-> Flatten([i \in 1..Len(series) |-> series[i].index]),
     values |-> Flatten([i \in 1..Len(series) |-> series[i].values])]

----------------------------------------------------------------------------
(* geo_loader.py: merge_and_batch_correct *)

\* a merger that unites the column sets instead of intersecting them
RECURSIVE UniteColumns(_, _)
UniteColumns(common, rest) ==
    IF rest = <<>> THEN common
    ELSE UniteColumns(common \cup Range(Head(rest).columns), Tail(rest))

\* the loop of lines 93-94 as sets: set(common_genes) & set(e.columns)
RECURSIVE IntersectColumns(_, _)
IntersectColumns(common, rest) ==
    IF rest = <<>> THEN common
    ELSE IntersectColumns(common \cap Range(Head(rest).columns), Tail(rest))

\* lines 92-94: the values common_genes can take.  With one cohort it is the
\* cohort's column list; otherwise it is list(set & set), whose order is the
\* set's iteration order (any enumeration of the intersection).
CommonGenesChoices(el) ==
    IF Len(el) = 1 THEN {el[1].columns}
    ELSE Perms(IntersectColumns(Range(el[1].columns), Tail(el)))

\* a selection that keeps every column of the cohort
KeepAll(cg, expr) == expr.columns

\* line 99: keep = [g for g in common_genes if g in expr.columns]
Keep(cg, expr) == SelectSeq(cg, LAMBDA g : g \in Range(expr.columns))

\* zip(expr_list, label_list)
ZipLen(el, ll) == IF Len(el) <= Len(ll) THEN Len(el) ELSE Len(ll)

\* lines 98-103: positions of the cohorts appended to merged (not skipped)
RECURSIVE KeptFrom(_, _, _, _)
KeptFrom(cg, el, ll, i) ==
    IF i > ZipLen(el, ll) THEN <<>>
    ELSE (IF Keep(cg, el[i]) = <<>> THEN <<>> ELSE <<i>>)
         \o KeptFrom(cg, el, ll, i + 1)

Survivors(cg, el, ll) == KeptFrom(cg, el, ll, 1)

\* a batch vector that numbers the cohorts from 1
BatchVecFromOne(cg, el, ll) ==
    Flatten([i \in 1..ZipLen(el, ll) |->
        [k \in 1..NRows(SelectColumns(el[i], Keep(cg, el[i]))) |-> i]])

\* lines 111-114: batch_vec, built over every zipped cohort with index j
\* counted from 0; expr[keep].shape[0] is the cohort's row count
BatchVec(cg, el, ll) ==
    Flatten([i \in 1..ZipLen(el, ll) |->
        [k \in 1..NRows(SelectColumns(el[i], Keep(cg, el[i]))) |-> i - 1]])

\* outcomes of the external batch-correction library (lines 110, 117): the
\* import fails, py_combat raises, or it returns a matrix of the same shape
CombatOutcomes == {"ImportError", "raises", "returns"}

\* the values py_combat returns are abstracted to a location shift of each
\* cell by its batch number
ShiftCell(cell, by) ==
    IF cell = NaN THEN NaN ELSE <<cell[1] + by * cell[2], cell[2]>>

\* lines 116-122: expr_merged rebuilt from py_combat's result
Corrected(df, bv) ==
    [df EXCEPT !.values =
        [r \in 1..NRows(df) |->
            [c \in 1..NCols(df) |-> ShiftCell(df.values[r][c], bv[r] + 1)]]]

\* a merger that also corrects a single cohort
CorrectionAttemptedAlways(el, cg) == Len(el) >= 1 /\ Len(cg) > 0

\* line 108: whether batch correction is attempted
CorrectionAttempted(el, cg) == Len(el) > 1 /\ Len(cg) > 0

\* line 115: whether py_combat is called on the merged matrix
LengthsAgree(bv, df) == Len(bv) = NRows(df)

\* the whole function, for one choice cg of common_genes and one outcome oc
\* of the correction library
MergeResult(el, ll, cg, oc) ==
    IF el = <<>>                                          \* lines 89-90
    THEN [status |-> "returned", expr |-> EmptyFrame, labels |-> EmptySeries,
          batch_vec |-> <<>>, combat |-> 0, warned |-> 0]
    ELSE
    LET kept   == Survivors(cg, el, ll)
        merged == [i \in 1..Len(kept) |->
                      SelectColumns(el[kept[i]], Keep(cg, el[kept[i]]))]
        mlabs  == [i \in 1..Len(kept) |-> ll[kept[i]]]
    IN  IF merged = <<>>                                  \* line 105 raises
        THEN [status |-> "ValueError", expr |-> EmptyFrame,
              labels |-> EmptySeries, batch_vec |-> <<>>, combat |-> 0,
              warned |-> 0]
        ELSE
        LET em == ConcatFrames(merged)
            lm == ConcatSeries(mlabs)
            bv == BatchVec(cg, el, ll)
            plain == [status |-> "returned", expr |-> em, labels |-> lm,
                      batch_vec |-> <<>>, combat |-> 0, warned |-> 0]
        IN  IF ~CorrectionAttempted(el, cg) THEN plain
            ELSE IF oc = "ImportError"               \* line 110 raises
            THEN [plain EXCEPT !.warned = 1]
            ELSE IF ~LengthsAgree(bv, em)                 \* line 115 false
            THEN [plain EXCEPT !.batch_vec = bv]
            ELSE IF oc = "raises"                    \* line 117 raises
            THEN [plain EXCEPT !.batch_vec = bv, !.combat = 1, !.warned = 1]
            ELSE [plain EXCEPT !.batch_vec = bv, !.combat = 1,
                               !.expr = Corrected(em, bv)]

MergeChoices(el) == IF el = <<>> THEN {<<>>} ELSE CommonGenesChoices(el)

merge_and_batch_correct ==
    /\ pc = "merge"
    /\ \E cg \in MergeChoices(expr_list), oc \in CombatOutcomes :
         \E res \in {MergeResult(expr_list, label_list, cg, oc)} :
             /\ common_genes' = cg
             /\ merge_status' = res.status
             /\ expr_merged' = res.expr
             /\ labels_merged' = res.labels
             /\ batch_vec' = res.batch_vec
             /\ combat_calls' = res.combat
             /\ merge_warnings' = res.warned
             /\ warnings_shown' = IF warning_filter = "ignore" THEN 0
                                  ELSE res.warned
    /\ merge_calls' = merge_calls + 1
    /\ pc' = "done"
    /\ UNCHANGED inferVars
    /\ UNCHANGED <<expr_list, label_list, warning_filter, first_columns,
                   trainVars, loadVars, collapseVars, labelVars,
                   deVars, commonVars>>

----------------------------------------------------------------------------
(* Cohort matrices handed to the merger *)

gA == <<"A">>
gB == <<"B">>
gC == <<"C">>

\* column lists of the cohorts: overlapping and disjoint gene sets, one of
\* them in an order that is not sorted
ColumnChoices ==
    {<<gA>>, <<gB, gC>>, <<gA, gB>>, <<gB, gA>>, <<gA, gB, gC>>}

GseId(j) == <<"GSE", j>>

\* row ids counted from 1
RowIndexFromOne(gse_id, n) == [k \in 1..n |-> <<gse_id, k>>]

\* row ids <cohortId>_<k>, k from 0 (geo_loader.py line 75)
RowIndex(gse_id, n) == [k \in 1..n |-> <<gse_id, k - 1>>]

GeneNo(g) == IF g = gA THEN 1 ELSE IF g = gB THEN 2 ELSE 3

\* a cohort whose cells name their own cohort, row and gene
CohortFrame(j, cols, n) ==
    [columns |-> cols,
     index   |-> RowIndex(GseId(j), n),
     values  |-> [r \in 1..n |->
                    [c \in 1..Len(cols) |->
                        Num(100 * j + 10 * r + GeneNo(cols[c]))]]]

CohortLabels(j, n) ==
    [index  |-> RowIndex(GseId(j), n),
     values |-> [r \in 1..n |->
                    IF (j + r) % 2 = 0 THEN "Control" ELSE "AD"]]

InferIdle ==
    /\ infer_table = [columns |-> <<>>, rows |-> <<>>]
    /\ id_col = <<>>
    /\ val_col = <<>>

MergeIdle ==
    /\ merge_calls = 0
    /\ merge_status = "none"
    /\ expr_merged = EmptyFrame
    /\ labels_merged = EmptySeries
    /\ common_genes = <<>>
    /\ batch_vec = <<>>
    /\ combat_calls = 0
    /\ merge_warnings = 0
    /\ warning_filter = "default"
    /\ warnings_shown = 0
    /\ first_columns = <<>>

CollapseIdle ==
    /\ probe_expr = EmptyFrame
    /\ probe_to_gene = <<>>
    /\ gene_expr = EmptyFrame

LabelIdle ==
    /\ gsm_metadata = <<>>
    /\ disease_label = "AD"
    /\ sample_label = "none"

DeIdle ==
    /\ expression_data = EmptyFrame
    /\ labels = <<>>
    /\ pvalue_threshold = <<50, 1000>>
    /\ logfc_threshold = <<5, 10>>
    /\ de_status = "none"
    /\ genes_done = 0
    /\ df_results = <<>>

CommonIdle ==
    /\ degs1 = <<>>
    /\ degs2 = <<>>
    /\ co_degs = [upregulated |-> <<>>, downregulated |-> <<>>, all |-> <<>>]

TrainIdle ==
    /\ ids = <<>>
    /\ next_id = 0
    /\ load_warnings = <<>>
    /\ batch_ids = <<>>

NoDataset == [name |-> <<>>, fetch |-> "none", gpls |-> <<>>, gsms |-> <<>>]

LoadIdle ==
    /\ gse = NoDataset
    /\ load_status = "none"
    /\ load_labels = EmptySeries
    /\ resolved_cols = <<>>

InitMerge ==
    /\ InferIdle
    /\ pc = "merge"
    /\ \E n \in 1..MaxCohorts :
         \E cols \in [1..n -> ColumnChoices], rows \in [1..n -> 1..MaxRows] :
            /\ expr_list = [j \in 1..n |-> CohortFrame(j, cols[j], rows[j])]
            /\ label_list = [j \in 1..n |-> CohortLabels(j, rows[j])]
    /\ MergeIdle
    /\ TrainIdle
    /\ LoadIdle
    /\ CollapseIdle
    /\ LabelIdle
    /\ DeIdle
    /\ CommonIdle

NextMerge == merge_and_batch_correct

SpecMerge == InitMerge /\ [][NextMerge]_vars

----------------------------------------------------------------------------
(* The merger inside a session of the program: pipeline/main.py imports    *)
(* pipeline/pipeline.py before it loads and merges the cohorts, and a later *)
(* run merges the same cohorts again                                         *)

\* pipeline.py lines 5-6: importing the module installs the 'ignore' filter
import_pipeline ==
    /\ pc = "import"
    /\ warning_filter' = "ignore"
    /\ pc' = "merge"
    /\ UNCHANGED inferVars
    /\ UNCHANGED <<expr_list, label_list, merge_calls, merge_status,
                   expr_merged, labels_merged, common_genes, batch_vec,
                   combat_calls, merge_warnings, warnings_shown,
                   first_columns, trainVars, loadVars, collapseVars,
                   labelVars, deVars, commonVars>>

\* the same cohort list is handed to merge_and_batch_correct a second time;
\* the column list of the first result is kept for comparison
merge_again ==
    /\ pc = "done"
    /\ merge_calls = 1
    /\ first_columns' = expr_merged.columns
    /\ pc' = "merge"
    /\ UNCHANGED inferVars
    /\ UNCHANGED <<expr_list, label_list, merge_calls, merge_status,
                   expr_merged, labels_merged, common_genes, batch_vec,
                   combat_calls, merge_warnings, warning_filter,
                   warnings_shown, trainVars, loadVars, collapseVars,
                   labelVars, deVars, commonVars>>

\* the merger is called from the entry point ("import") or as a library
InitSession ==
    /\ InferIdle
    /\ pc \in {"import", "merge"}
    /\ \E n \in 1..MaxCohorts : \E cols \in [1..n -> ColumnChoices] :
          /\ expr_list = [j \in 1..n |-> CohortFrame(j, cols[j], 1)]
          /\ label_list = [j \in 1..n |-> CohortLabels(j, 1)]
    /\ MergeIdle
    /\ TrainIdle
    /\ LoadIdle
    /\ CollapseIdle
    /\ LabelIdle
    /\ DeIdle
    /\ CommonIdle

NextSession == import_pipeline \/ merge_and_batch_correct \/ merge_again

SpecSession == InitSession /\ [][NextSession]_vars

----------------------------------------------------------------------------
(* utils.py: collapse_probes_to_genes *)

\* a cell of a raw table: missing (NaN), a string or a number
NaCell == [k |-> "nan", s |-> <<>>, v |-> 0]
StrCell(s) == [k |-> "str", s |-> s, v |-> 0]
NumCell(v) == [k |-> "num", s |-> <<>>, v |-> v]

\* pd.notna(g)
NotNa(g) == g.k /= "nan"
\* str(g): the text of a string, "nan" for a missing value
StrOf(g) == IF g.k = "nan" THEN <<"n", "a", "n">> ELSE g.s

\* lines 89-93: _map_probe
MapProbe(p, m) ==
    IF p \in DOMAIN m
    THEN IF NotNa(m[p]) /\ Strip(StrOf(m[p])) /= <<>>
         THEN Strip(StrOf(m[p])) ELSE <<>>
    ELSE <<>>

AddFrac(a, b) == Fraction(a[1] * b[2] + b[1] * a[2], a[2] * b[2])

RECURSIVE SumFrac(_)
SumFrac(cells) ==
    IF cells = <<>> THEN <<0, 1>> ELSE AddFrac(Head(cells), SumFrac(Tail(cells)))

\* an aggregation that adds the probes up instead of averaging them
SumCells(cells) ==
    LET present == SelectSeq(cells, LAMBDA x : x /= NaN)
    IN  IF present = <<>> THEN NaN ELSE SumFrac(present)

\* groupby(...).mean() of one group in one row: the mean of the cells that
\* are not NaN, NaN when there is none
MeanCells(cells) ==
    LET present == SelectSeq(cells, LAMBDA x : x /= NaN)
        total   == SumFrac(present)
    IN  IF present = <<>> THEN NaN
        ELSE Fraction(total[1], total[2] * Len(present))

\* lines 94-99
CollapseProbesToGenes(expr, m) ==
    LET gene_map == [c \in 1..NCols(expr) |-> MapProbe(expr.columns[c], m)]
        kept     == SelectSeq([c \in 1..NCols(expr) |-> c],
                              LAMBDA c : gene_map[c] /= <<>>)
        groups   == SortedStrs({gene_map[kept[i]] : i \in 1..Len(kept)})
        Members(g) == SelectSeq(kept, LAMBDA c : gene_map[c] = g)
    IN  [columns |-> groups,
         index   |-> expr.index,
         values  |-> [r \in 1..NRows(expr) |->
                        [g \in 1..Len(groups) |->
                            MeanCells([i \in 1..Len(Members(groups[g])) |->
                                expr.values[r][Members(groups[g])[i]]])]]]

collapse_probes_to_genes ==
    /\ pc = "collapse"
    /\ gene_expr' = CollapseProbesToGenes(probe_expr, probe_to_gene)
    /\ pc' = "done"
    /\ UNCHANGED inferVars
    /\ UNCHANGED <<probe_expr, probe_to_gene, trainVars, loadVars, mergeVars,
                   labelVars,
                   deVars, commonVars>>

\* probe identifiers of the input matrix
p1 == <<"p", "1">>
p2 == <<"p", "2">>
p3 == <<"p", "3">>
Probes == <<p1, p2, p3>>

\* map entries: missing, empty, blank, and symbols with and without padding
GeneCells ==
    {NaCell, StrCell(<<>>), StrCell(<<" ">>), StrCell(gA),
     StrCell(<<" ", "A">>), StrCell(gB)}

ProbeMaps ==
    UNION {[D -> GeneCells] : D \in SUBSET Range(Probes)}

\* rows of the input matrix over the three probes
RowChoices ==
    {<<Num(2), Num(4), Num(6)>>, <<NaN, Num(4), Num(1)>>, <<NaN, NaN, Num(3)>>}

InitCollapse ==
    /\ InferIdle
    /\ pc = "collapse"
    /\ \E n \in 1..MaxRows : \E rows \in [1..n -> RowChoices] :
          probe_expr = [columns |-> Probes,
                        index   |-> RowIndex(GseId(1), n),
                        values  |-> rows]
    /\ probe_to_gene \in ProbeMaps
    /\ gene_expr = EmptyFrame
    /\ MergeIdle
    /\ TrainIdle
    /\ LoadIdle
    /\ expr_list = <<>>
    /\ label_list = <<>>
    /\ LabelIdle
    /\ DeIdle
    /\ CommonIdle

NextCollapse == collapse_probes_to_genes

SpecCollapse == InitCollapse /\ [][NextCollapse]_vars

----------------------------------------------------------------------------
(* utils.py: schema inference *)

\* a raw table: column names and rows of raw cells, one cell per column
TableCol(tbl, name) == CHOOSE c \in 1..Len(tbl.columns) : tbl.columns[c] = name
HasColumn(tbl, name) == name \in Range(tbl.columns)
\* DataFrame.empty
TableEmpty(tbl) == tbl.columns = <<>> \/ tbl.rows = <<>>

\* column names the inference functions know
N_ID_REF == <<"I", "D", "_", "R", "E", "F">>
N_ID == <<"I", "D">>
N_PROBEID == <<"P", "R", "O", "B", "E", "I", "D">>
N_REF == <<"R", "E", "F">>
N_ProbeID == <<"P", "r", "o", "b", "e", "I", "D">>
N_VALUE == <<"V", "A", "L", "U", "E">>
N_Signal == <<"S", "i", "g", "n", "a", "l">>
N_CH1_INTENSITY == <<"C", "H", "1", "_", "I", "N", "T", "E", "N", "S", "I", "T", "Y">>
N_RPKM == <<"R", "P", "K", "M">>
N_TPM == <<"T", "P", "M">>
N_raw_value == <<"r", "a", "w", "_", "v", "a", "l", "u", "e">>
N_norm_value == <<"n", "o", "r", "m", "_", "v", "a", "l", "u", "e">>
N_Gene_symbol == <<"G", "e", "n", "e", " ", "s", "y", "m", "b", "o", "l">>
N_Gene_Symbol == <<"G", "e", "n", "e", " ", "S", "y", "m", "b", "o", "l">>
N_GENE_SYMBOL == <<"G", "E", "N", "E", "_", "S", "Y", "M", "B", "O", "L">>
N_Gene__Symbol == <<"G", "e", "n", "e", "_", "S", "y", "m", "b", "o", "l">>
N_GeneSymbol == <<"G", "e", "n", "e", "S", "y", "m", "b", "o", "l">>
N_gene_assignment == <<"g", "e", "n", "e", "_", "a", "s", "s", "i", "g", "n", "m", "e", "n", "t">>
N_GENE_NAME == <<"G", "E", "N", "E", "_", "N", "A", "M", "E">>
N_Gene_name == <<"G", "e", "n", "e", " ", "n", "a", "m", "e">>
N_Symbol == <<"S", "y", "m", "b", "o", "l">>
N_SYMBOL == <<"S", "Y", "M", "B", "O", "L">>
N_Gene == <<"G", "e", "n", "e">>
N_GENE == <<"G", "E", "N", "E">>
N_ILMN_Gene == <<"I", "L", "M", "N", "_", "G", "e", "n", "e">>
N_GeneName == <<"G", "e", "n", "e", "N", "a", "m", "e">>
T_symbol == <<"s", "y", "m", "b", "o", "l">>
T_gene == <<"g", "e", "n", "e">>

\* first element of the priority list that is a column, <<>> when none is
RECURSIVE FirstPresent(_, _)
FirstPresent(names, tbl) ==
    IF names = <<>> THEN <<>>
    ELSE IF HasColumn(tbl, Head(names)) THEN <<Head(names)>>
    ELSE FirstPresent(Tail(names), tbl)

\* first element of the sequence that satisfies Test, <<>> when none does
FirstWhere(s, Test(_)) ==
    LET hits == SelectSeq(s, Test)
    IN  IF hits = <<>> THEN <<>> ELSE <<hits[1]>>

\* lines 55-59: infer_id_column; columns[0] raises IndexError on a table
\* without columns
IdColumnNames == <<N_ID_REF, N_ID, N_PROBEID, N_REF, N_ProbeID>>
InferIdColumn(tbl) ==
    LET hit == FirstPresent(IdColumnNames, tbl)
    IN  IF hit /= <<>> THEN [status |-> "returned", col |-> hit[1]]
        ELSE IF Len(tbl.columns) >= 1
        THEN [status |-> "returned", col |-> tbl.columns[1]]
        ELSE [status |-> "IndexError", col |-> <<>>]

\* pd.api.types.is_numeric_dtype(table[c]): no cell of the column is text
IsNumericColumn(tbl, c) ==
    \A r \in 1..Len(tbl.rows) : tbl.rows[r][c].k /= "str"

\* lines 43-52: infer_value_column; columns[1] raises IndexError on a table
\* with fewer than two columns
ValueColumnNames ==
    <<N_VALUE, N_Signal, N_CH1_INTENSITY, N_RPKM, N_TPM, N_raw_value,
      N_norm_value>>
InferValueColumn(tbl) ==
    LET hit == FirstPresent(ValueColumnNames, tbl)
        num == FirstWhere([c \in 1..Len(tbl.columns) |-> c],
                   LAMBDA c :
                       /\ Upper(tbl.columns[c]) \notin
                              {N_ID_REF, N_ID, N_PROBEID, N_REF}
                       /\ IsNumericColumn(tbl, c))
    IN  IF hit /= <<>> THEN [status |-> "returned", col |-> hit[1]]
        ELSE IF num /= <<>>
        THEN [status |-> "returned", col |-> tbl.columns[num[1]]]
        ELSE IF Len(tbl.columns) >= 2
        THEN [status |-> "returned", col |-> tbl.columns[2]]
        ELSE [status |-> "IndexError", col |-> <<>>]

\* lines 62-74: infer_gene_symbol_column; <<>> stands for None
GeneSymbolCandidates ==
    <<N_Gene_symbol, N_Gene_Symbol, N_GENE_SYMBOL, N_Gene__Symbol,
      N_GeneSymbol, N_gene_assignment, N_GENE_NAME, N_Gene_name, N_Symbol,
      N_SYMBOL, N_Gene, N_GENE, N_ILMN_Gene, N_GeneName>>
InferGeneSymbolColumn(tbl) ==
    LET hit == FirstPresent(GeneSymbolCandidates, tbl)
    IN  IF hit /= <<>> THEN hit
        ELSE FirstWhere(tbl.columns,
                 LAMBDA col : \/ Contains(Lower(col), T_symbol)
                              \/ Contains(Lower(col), T_gene))

\* lines 55-59: one call of infer_id_column on the table
infer_id_column ==
    /\ pc = "infer"
    /\ id_col = <<>>
    /\ id_col' = <<InferIdColumn(infer_table)>>
    /\ UNCHANGED <<pc, infer_table, val_col, trainVars, loadVars, mergeVars,
                   collapseVars, labelVars, deVars, commonVars>>

\* lines 43-52: one call of infer_value_column on the table
infer_value_column ==
    /\ pc = "infer"
    /\ val_col = <<>>
    /\ val_col' = <<InferValueColumn(infer_table)>>
    /\ UNCHANGED <<pc, infer_table, id_col, trainVars, loadVars, mergeVars,
                   collapseVars, labelVars, deVars, commonVars>>

\* column names of the tables handed to the inference functions: names of
\* the lists, their spellings in another case, and a name of no list
N_id_ref == <<"i", "d", "_", "r", "e", "f">>
N_Id == <<"I", "d">>
N_x == <<"x">>
InferNames ==
    {N_ID_REF, N_id_ref, N_Id, N_REF, N_ProbeID, N_VALUE, N_Signal, N_x}

\* a table of one row with the given columns; kinds[c] tells whether the
\* column holds numbers or text
InferTable(cols, kinds) ==
    [columns |-> cols,
     rows    |-> IF cols = <<>> THEN <<>>
                 ELSE <<[c \in 1..Len(cols) |->
                           IF kinds[c] = "num" THEN NumCell(1)
                           ELSE StrCell(<<"a">>)]>>]

\* tables of up to MaxCols columns with distinct names
InferTables ==
    {InferTable(cols, kinds) :
        <<cols, kinds>> \in
            UNION {{c \in [1..n -> InferNames] :
                       \A i, j \in 1..n : c[i] = c[j] => i = j}
                   \X [1..n -> {"num", "str"}] : n \in 0..MaxCols}}

InitInfer ==
    /\ pc = "infer"
    /\ infer_table \in InferTables
    /\ id_col = <<>>
    /\ val_col = <<>>
    /\ MergeIdle
    /\ TrainIdle
    /\ LoadIdle
    /\ CollapseIdle
    /\ expr_list = <<>>
    /\ label_list = <<>>
    /\ LabelIdle
    /\ DeIdle
    /\ CommonIdle

NextInfer == infer_id_column \/ infer_value_column

SpecInfer == InitInfer /\ [][NextInfer]_vars

----------------------------------------------------------------------------
(* utils.py: get_sample_labels *)

\* the texts the label inference looks for, and words of sample metadata
W_control == <<"c", "o", "n", "t", "r", "o", "l">>
W_normal == <<"n", "o", "r", "m", "a", "l">>
W_non_demented == <<"n", "o", "n", "-", "d", "e", "m", "e", "n", "t", "e", "d">>
W_healthy == <<"h", "e", "a", "l", "t", "h", "y">>
W_alzheimer == <<"a", "l", "z", "h", "e", "i", "m", "e", "r">>
W_ad_ == <<"a", "d", " ">>
W_demented == <<"d", "e", "m", "e", "n", "t", "e", "d">>
W_disease == <<"d", "i", "s", "e", "a", "s", "e">>
W_osteoarthritis == <<"o", "s", "t", "e", "o", "a", "r", "t", "h", "r", "i", "t", "i", "s">>
W__oa_ == <<" ", "o", "a", " ">>
W_oa_patient == <<"o", "a", " ", "p", "a", "t", "i", "e", "n", "t">>
W_normal_knee == <<"n", "o", "r", "m", "a", "l", " ", "k", "n", "e", "e">>
W_non_oa == <<"n", "o", "n", "-", "o", "a">>
W_AD == <<"A", "D">>
W_blood == <<"b", "l", "o", "o", "d">>

\* line 103: the metadata keys in the order they are inspected
LabelKeys == <<"characteristics_ch1", "title", "source_name_ch1">>

\* line 110 without its first alternative
ControlPatternsShort ==
    {W_normal, W_non_demented, W_healthy}

\* line 110
ControlPatterns ==
    {W_control, W_normal, W_non_demented, W_healthy}
\* lines 112 and 114
DiseasePatterns ==
    {W_alzheimer, W_ad_, W_demented, W_disease,
     W_osteoarthritis, W__oa_, W_oa_patient}
\* line 116
LateControlPatterns ==
    {W_normal_knee, W_non_oa}

ContainsAny(text, pats) == \E pat \in pats : Contains(text, pat)

\* line 109: text = " ".join(str(v).lower() for v in vals)
KeyText(vals) == Join(<<" ">>, [i \in 1..Len(vals) |-> Lower(vals[i])])

\* a decision that tests the disease substrings before the control ones
DecideTextDiseaseFirst(text, disease) ==
    IF ContainsAny(text, DiseasePatterns) THEN disease
    ELSE IF ContainsAny(text, ControlPatterns \cup LateControlPatterns)
    THEN "Control"
    ELSE "next"

\* lines 110-117: the decision one key's text yields, "next" when none
DecideText(text, disease) ==
    IF ContainsAny(text, ControlPatterns) THEN "Control"
    ELSE IF ContainsAny(text, DiseasePatterns) THEN disease
    ELSE IF ContainsAny(text, LateControlPatterns) THEN "Control"
    ELSE "next"

\* lines 103-117: the loop over the keys, from position i
RECURSIVE LabelFromKeys(_, _, _)
LabelFromKeys(meta, disease, i) ==
    IF i > Len(LabelKeys) THEN "next"
    ELSE IF LabelKeys[i] \notin DOMAIN meta
    THEN LabelFromKeys(meta, disease, i + 1)
    ELSE LET d == DecideText(KeyText(meta[LabelKeys[i]]), disease)
         IN  IF d /= "next" THEN d
             ELSE LabelFromKeys(meta, disease, i + 1)

\* lines 118-121: the fallback on the title
TitleFallback(meta, disease) ==
    LET title == IF "title" \in DOMAIN meta
                 THEN Join(<<" ">>, meta["title"]) ELSE <<>>
    IN  IF Contains(Lower(title), W_control) THEN "Control" ELSE disease

GetSampleLabels(meta, disease) ==
    LET d == LabelFromKeys(meta, disease, 1)
    IN  IF d /= "next" THEN d ELSE TitleFallback(meta, disease)

get_sample_labels ==
    /\ pc = "label"
    /\ sample_label' = GetSampleLabels(gsm_metadata, disease_label)
    /\ pc' = "done"
    /\ UNCHANGED inferVars
    /\ UNCHANGED <<gsm_metadata, disease_label, trainVars, loadVars, mergeVars,
                   collapseVars, deVars, commonVars>>

\* values found in sample metadata
MetaWords == {W_control, W_AD, W_disease, W_blood}

\* the characteristics field holds up to MaxVals values, the title and the
\* source name hold one; each key may be absent
MetaChoices ==
    UNION {
      {[k \in D |->
            IF k = "characteristics_ch1" THEN ch
            ELSE IF k = "title" THEN <<ti>> ELSE <<so>>] :
         ch \in (IF "characteristics_ch1" \in D
                 THEN SeqsUpTo(MetaWords, MaxVals) \ {<<>>} ELSE {<<>>}),
         ti \in (IF "title" \in D THEN MetaWords ELSE {<<>>}),
         so \in (IF "source_name_ch1" \in D THEN MetaWords ELSE {<<>>})} :
      D \in SUBSET Range(LabelKeys)}

InitLabels ==
    /\ InferIdle
    /\ pc = "label"
    /\ gsm_metadata \in MetaChoices
    /\ disease_label \in {"AD", "OA"}
    /\ sample_label = "none"
    /\ MergeIdle
    /\ TrainIdle
    /\ LoadIdle
    /\ CollapseIdle
    /\ expr_list = <<>>
    /\ label_list = <<>>
    /\ DeIdle
    /\ CommonIdle

NextLabels == get_sample_labels

SpecLabels == InitLabels /\ [][NextLabels]_vars

----------------------------------------------------------------------------
(* utils.py: extract_gene_from_assignment *)

StartsWith(s, pre) == Len(s) >= Len(pre) /\ SubSeq(s, 1, Len(pre)) = pre

\* re.split on "///" and "//" (the whitespace around a separator is removed
\* by the strip() of each part)
RECURSIVE SplitSlashes(_, _)
SplitSlashes(text, cur) ==
    IF text = <<>> THEN <<cur>>
    ELSE IF StartsWith(text, <<"/", "/", "/">>)
    THEN <<cur>> \o SplitSlashes(SubSeq(text, 4, Len(text)), <<>>)
    ELSE IF StartsWith(text, <<"/", "/">>)
    THEN <<cur>> \o SplitSlashes(SubSeq(text, 3, Len(text)), <<>>)
    ELSE SplitSlashes(Tail(text), cur \o <<Head(text)>>)

\* lines 77-85; the result is a string, empty when no part qualifies
ExtractGeneFromAssignment(cell) ==
    IF cell.k /= "str" THEN <<>>
    ELSE LET parts  == SplitSlashes(Strip(cell.s), <<>>)
             tokens == [i \in 1..Len(parts) |-> Strip(parts[i])]
             hit    == FirstWhere(tokens,
                          LAMBDA t : /\ t /= <<>>
                                     /\ ~StartsWith(t, <<"N", "M", "_">>)
                                     /\ ~StartsWith(t, <<"N", "R", "_">>)
                                     /\ Len(t) < 20)
         IN  IF hit = <<>> THEN <<>> ELSE hit[1]

----------------------------------------------------------------------------
(* geo_loader.py: load_single_gse *)

IsDigit(c) == Ord("0") <= Ord(c) /\ Ord(c) <= Ord("9")

RECURSIVE DigitsValue(_, _)
DigitsValue(s, acc) ==
    IF s = <<>> THEN acc
    ELSE DigitsValue(Tail(s), 10 * acc + (Ord(Head(s)) - Ord("0")))

\* line 67: pd.to_numeric(..., errors="coerce") of one cell
ToNumeric(cell) ==
    IF cell.k = "num" THEN Num(cell.v)
    ELSE IF cell.k = "str" /\ cell.s /= <<>>
            /\ \A i \in 1..Len(cell.s) : IsDigit(cell.s[i])
    THEN Num(DigitsValue(cell.s, 0))
    ELSE NaN

\* a Series of the annotation table indexed by the identifier column: the
\* function from identifier text to Cell(row)
IndexedBy(tbl, idc, Cell(_)) ==
    [p \in {tbl.rows[r][idc].s : r \in 1..Len(tbl.rows)} |->
        Cell(tbl.rows[CHOOSE r \in 1..Len(tbl.rows) : tbl.rows[r][idc].s = p])]

\* line 45: gpl_table.set_index(id_col_pl)[gene_col].astype(str)
SymbolMap(tbl, idc, gc) ==
    IndexedBy(tbl, idc, LAMBDA row : StrCell(StrOf(row[gc])))

\* lines 48-50: the map through extract_gene_from_assignment
AssignmentMap(tbl, idc) ==
    IndexedBy(tbl, idc,
        LAMBDA row : StrCell(ExtractGeneFromAssignment(
                                 row[TableCol(tbl, N_gene_assignment)])))

\* lines 37-50: probe_to_gene; the empty map stands for None as well
ProbeToGene(gpls) ==
    IF gpls = <<>> THEN [status |-> "returned", map |-> <<>>]
    ELSE
    LET gpl_table == gpls[1]
        id_col_pl == InferIdColumn(gpl_table)
        gene_col  == InferGeneSymbolColumn(gpl_table)
    IN  IF id_col_pl.status /= "returned"
        THEN [status |-> "IndexError", map |-> <<>>]
        ELSE IF gene_col /= <<>>
        THEN IF gene_col[1] = id_col_pl.col
             THEN [status |-> "KeyError", map |-> <<>>]
             ELSE [status |-> "returned",
                   map |-> SymbolMap(gpl_table,
                                     TableCol(gpl_table, id_col_pl.col),
                                     TableCol(gpl_table, gene_col[1]))]
        ELSE IF HasColumn(gpl_table, N_gene_assignment)
        THEN [status |-> "returned",
              map |-> AssignmentMap(gpl_table,
                                    TableCol(gpl_table, id_col_pl.col))]
        ELSE [status |-> "returned", map |-> <<>>]

\* lines 66-67: the (identifier -> value) series of one sample, the entries
\* that fail numeric coercion dropped
SampleSeries(tbl, idc, valc) ==
    LET ic   == TableCol(tbl, idc)
        vc   == TableCol(tbl, valc)
        rows == SelectSeq([r \in 1..Len(tbl.rows) |-> r],
                          LAMBDA r : ToNumeric(tbl.rows[r][vc]) /= NaN)
    IN  [ids  |-> [i \in 1..Len(rows) |-> tbl.rows[rows[i]][ic].s],
         vals |-> [i \in 1..Len(rows) |-> ToNumeric(tbl.rows[rows[i]][vc])]]

\* lines 57-70: the loop over the samples from position i, with the column
\* pair resolved so far (<<>> for None)
\* a resolution that infers the column again on every sample
ResolvedAnew(prev, inferred) == <<inferred>>

\* lines 61-63: a column is inferred only while it is still None
Resolved(prev, inferred) == IF prev = <<>> THEN <<inferred>> ELSE prev

RECURSIVE SampleLoop(_, _, _, _, _, _, _)
SampleLoop(gsms, disease, i, idc, valc, series, labs) ==
    IF i > Len(gsms)
    THEN [status |-> "returned", series |-> series, labs |-> labs,
          id_col_s |-> idc, val_col_s |-> valc]
    ELSE
    LET gsm == gsms[i]
    IN  IF gsm.table = <<>> \/ TableEmpty(gsm.table[1])     \* lines 58-59
        THEN SampleLoop(gsms, disease, i + 1, idc, valc, series, labs)
        ELSE
        LET tbl   == gsm.table[1]
            idr   == InferIdColumn(tbl)
            valr  == InferValueColumn(tbl)
            idc2  == Resolved(idc, idr.col)
            valc2 == Resolved(valc, valr.col)
        IN  IF idc = <<>> /\ (idr.status /= "returned"
                              \/ valr.status /= "returned")
            THEN [status |-> "IndexError", series |-> series, labs |-> labs,
                  id_col_s |-> idc, val_col_s |-> valc]
            ELSE IF ~HasColumn(tbl, idc2[1]) \/ ~HasColumn(tbl, valc2[1])
            THEN SampleLoop(gsms, disease, i + 1, idc2, valc2, series, labs)
            ELSE SampleLoop(gsms, disease, i + 1, idc2, valc2,
                     Append(series, SampleSeries(tbl, idc2[1], valc2[1])),
                     Append(labs, GetSampleLabels(gsm.metadata, disease)))

\* line 75: pd.DataFrame(expr_list, index=...): one row per series, the
\* columns the identifiers in order of first appearance, NaN where a sample
\* has no value for an identifier (identifiers are unique within a sample)
RECURSIVE SeriesColumns(_, _)
SeriesColumns(seen, series) ==
    IF series = <<>> THEN seen
    ELSE SeriesColumns(
             seen \o SelectSeq(Head(series).ids,
                               LAMBDA p : p \notin Range(seen)),
             Tail(series))

SeriesFrame(gse_id, series) ==
    LET cols == SeriesColumns(<<>>, series)
        Cell(sr, p) ==
            IF p \in Range(sr.ids)
            THEN sr.vals[CHOOSE k \in 1..Len(sr.ids) : sr.ids[k] = p]
            ELSE NaN
    IN  [columns |-> cols,
         index   |-> RowIndex(gse_id, Len(series)),
         values  |-> [r \in 1..Len(series) |->
                        [c \in 1..Len(cols) |-> Cell(series[r], cols[c])]]]

LoadFailed(status) ==
    [status |-> status, raw |-> EmptyFrame, expr |-> EmptyFrame,
     labels |-> EmptySeries, map |-> <<>>, cols |-> <<>>]

\* the whole function; status is "returned" or the exception raised
LoadSingleGse(gse_id, dataset, disease) ==
    IF dataset.fetch /= "ok" THEN LoadFailed(dataset.fetch)  \* lines 27-35
    ELSE
    LET ptg == ProbeToGene(dataset.gpls)
    IN  IF ptg.status /= "returned" THEN LoadFailed(ptg.status)
        ELSE
        LET loop == SampleLoop(dataset.gsms, disease, 1, <<>>, <<>>, <<>>, <<>>)
            cols == loop.id_col_s \o loop.val_col_s
        IN  IF loop.status /= "returned" THEN LoadFailed(loop.status)
            ELSE IF loop.series = <<>>                       \* lines 72-73
            THEN [LoadFailed("returned") EXCEPT !.map = ptg.map,
                                                !.cols = cols]
            ELSE
            LET expr == SeriesFrame(gse_id, loop.series)
            IN  [status |-> "returned",
                 raw    |-> expr,
                 expr   |-> IF ptg.map /= <<>>               \* lines 78-79
                            THEN CollapseProbesToGenes(expr, ptg.map)
                            ELSE expr,
                 labels |-> [index |-> expr.index, values |-> loop.labs],
                 map    |-> ptg.map,
                 cols   |-> cols]

load_single_gse ==
    /\ pc = "load"
    /\ \E res \in {LoadSingleGse(gse.name, gse, disease_label)} :
          /\ load_status' = res.status
          /\ probe_expr' = res.raw
          /\ probe_to_gene' = res.map
          /\ gene_expr' = res.expr
          /\ load_labels' = res.labels
          /\ resolved_cols' = res.cols
    /\ pc' = "done"
    /\ UNCHANGED inferVars
    /\ UNCHANGED <<gse, gsm_metadata, disease_label, sample_label, trainVars,
                   mergeVars, deVars, commonVars>>

\* sample metadata
ControlMeta == [k \in {"title"} |-> <<W_control>>]
DiseaseMeta == [k \in {"characteristics_ch1"} |-> <<W_disease, W_blood>>]

\* a sample table with an identifier column ID_REF over the probes and one
\* value column
SampleTable(valname, cells) ==
    [columns |-> <<N_ID_REF, valname>>,
     rows    |-> [i \in 1..Len(cells) |-> <<StrCell(Probes[i]), cells[i]>>]]

Gsm(table, meta) == [table |-> table, metadata |-> meta]

\* samples: without a table, with an empty table, with numeric values, with
\* values held as text (one of them not a number, one missing), with another
\* value column, and with an identifier column only
SampleChoices ==
    {Gsm(<<>>, ControlMeta),
     Gsm(<<SampleTable(N_VALUE, <<>>)>>, DiseaseMeta),
     Gsm(<<SampleTable(N_VALUE, <<NumCell(2), NumCell(4), NumCell(6)>>)>>,
         ControlMeta),
     Gsm(<<SampleTable(N_VALUE,
              <<StrCell(<<"1", "2">>), StrCell(<<"n", "a">>), NaCell>>)>>,
         DiseaseMeta),
     Gsm(<<SampleTable(N_Signal, <<NumCell(8), NumCell(4)>>)>>, DiseaseMeta),
     Gsm(<<[columns |-> <<N_ID_REF>>, rows |-> <<<<StrCell(p1)>>>>]>>,
         ControlMeta)}

\* a platform annotation table over the probes p1 and p2
AnnotationTable(idname, genename, cells) ==
    [columns |-> <<idname, genename>>,
     rows    |-> [i \in 1..Len(cells) |-> <<StrCell(Probes[i]), cells[i]>>]]

\* platforms: none; an ID / Gene Symbol table whose two symbols range over
\* GeneCells; a table without rows; a table with a gene_assignment column; a
\* table whose only named column is the symbol column; a table without columns
GplChoices ==
    {<<>>}
    \cup {<<AnnotationTable(N_ID, N_Gene_Symbol, <<c1, c2>>)>> :
             c1 \in GeneCells, c2 \in GeneCells}
    \cup {<<AnnotationTable(N_ID, N_Gene_Symbol, <<>>)>>,
          <<AnnotationTable(N_ID, N_gene_assignment,
               <<StrCell(<<"N", "M", "_", "1", " ", "/", "/", " ", "A">>),
                 NaCell>>)>>,
          <<AnnotationTable(N_GENE, N_VALUE, <<StrCell(gA)>>)>>,
          <<[columns |-> <<>>, rows |-> <<>>]>>}

InitLoad ==
    /\ InferIdle
    /\ pc = "load"
    /\ \/ gse = [name |-> GseId(1), fetch |-> "raises", gpls |-> <<>>,
                 gsms |-> <<>>]
       \/ \E g \in GplChoices, ss \in SeqsUpTo(SampleChoices, MaxGsms) :
             gse = [name |-> GseId(1), fetch |-> "ok", gpls |-> g,
                    gsms |-> ss]
    /\ load_status = "none"
    /\ load_labels = EmptySeries
    /\ resolved_cols = <<>>
    /\ gsm_metadata = <<>>
    /\ disease_label \in {"AD", "OA"}
    /\ sample_label = "none"
    /\ CollapseIdle
    /\ MergeIdle
    /\ TrainIdle
    /\ expr_list = <<>>
    /\ label_list = <<>>
    /\ DeIdle
    /\ CommonIdle

NextLoad == load_single_gse

SpecLoad == InitLoad /\ [][NextLoad]_vars

----------------------------------------------------------------------------
(* data_loader.py: load_ad_training_data / load_oa_training_data *)

\* a filter that keeps every cohort that loaded, whatever its shape
KeepsCohortAnyShape(expr) == TRUE

\* lines 25 / 52: expr.shape[0] > 0 and expr.shape[1] > 0
KeepsCohort(expr) == NRows(expr) > 0 /\ NCols(expr) > 0

\* the datasets behind the cohort ids: two annotated cohorts with
\* overlapping genes, one whose download fails, one whose annotation table
\* has no column, one without usable samples, one whose values are all
\* unreadable, and one without platform
Catalogue(j) ==
    LET Numbers(a, b, c) == <<NumCell(a), NumCell(b), NumCell(c)>>
        Two(g, t) ==
            [name |-> GseId(j), fetch |-> "ok", gpls |-> g,
             gsms |-> <<Gsm(<<t>>, ControlMeta), Gsm(<<t>>, DiseaseMeta)>>]
    IN  CASE j = 1 ->
               Two(<<AnnotationTable(N_ID, N_Gene_Symbol,
                        <<StrCell(gA), StrCell(gB)>>)>>,
                   SampleTable(N_VALUE, Numbers(2, 4, 6)))
          [] j = 2 ->
               Two(<<AnnotationTable(N_ID, N_Gene_Symbol,
                        <<StrCell(gB), StrCell(gB)>>)>>,
                   SampleTable(N_VALUE, Numbers(1, 3, 5)))
          [] j = 3 ->
               [name |-> GseId(j), fetch |-> "raises", gpls |-> <<>>,
                gsms |-> <<>>]
          [] j = 4 ->
               Two(<<[columns |-> <<>>, rows |-> <<>>]>>,
                   SampleTable(N_VALUE, Numbers(2, 4, 6)))
          [] j = 5 ->
               [name |-> GseId(j), fetch |-> "ok", gpls |-> <<>>,
                gsms |-> <<Gsm(<<>>, ControlMeta)>>]
          [] j = 6 ->
               Two(<<>>, SampleTable(N_VALUE,
                             <<StrCell(<<"n", "a">>), NaCell>>))
          [] OTHER ->
               Two(<<>>, SampleTable(N_VALUE, Numbers(7, 8, 9)))

CatalogueIds == 1..7

\* lines 32 / 59: ids[: len(expr_list)]
BatchIds(id_list, loaded) ==
    SubSeq(id_list, 1, IF Len(loaded) < Len(id_list) THEN Len(loaded)
                       ELSE Len(id_list))

\* one iteration of the for loop of lines 22-29 / 49-56: the load, the shape
\* test and the appends, or the except clause with its warning; after the
\* last iteration the arguments of the call of lines 30-33 / 57-60 are built
load_cohort ==
    /\ pc = "loading"
    /\ next_id < Len(ids)
    /\ LET gse_id == ids[next_id + 1]
       IN  \E res \in {LoadSingleGse(GseId(gse_id), Catalogue(gse_id),
                                     disease_label)} :
              /\ gse' = Catalogue(gse_id)
              /\ load_status' = res.status
              /\ probe_expr' = res.raw
              /\ probe_to_gene' = res.map
              /\ gene_expr' = res.expr
              /\ load_labels' = res.labels
              /\ resolved_cols' = res.cols
              /\ IF res.status /= "returned"
                 THEN /\ load_warnings' = Append(load_warnings, gse_id)
                      /\ UNCHANGED <<expr_list, label_list>>
                 ELSE /\ UNCHANGED load_warnings
                      /\ IF KeepsCohort(res.expr)
                         THEN /\ expr_list' = Append(expr_list, res.expr)
                              /\ label_list' = Append(label_list, res.labels)
                         ELSE UNCHANGED <<expr_list, label_list>>
    /\ next_id' = next_id + 1
    /\ pc' = IF next_id + 1 = Len(ids) THEN "merge" ELSE "loading"
    /\ batch_ids' = IF next_id + 1 = Len(ids) THEN BatchIds(ids, expr_list')
                    ELSE batch_ids
    /\ UNCHANGED inferVars
    /\ UNCHANGED <<ids, merge_calls, merge_status, expr_merged, labels_merged,
                   common_genes, batch_vec, combat_calls, merge_warnings,
                   warning_filter, warnings_shown, first_columns,
                   labelVars, deVars, commonVars>>

\* load_ad_training_data passes "AD", load_oa_training_data "OA"
InitTrain ==
    /\ InferIdle
    /\ ids \in SeqsUpTo(CatalogueIds, MaxIds)
    /\ pc = IF ids = <<>> THEN "merge" ELSE "loading"
    /\ next_id = 0
    /\ load_warnings = <<>>
    /\ batch_ids = <<>>
    /\ expr_list = <<>>
    /\ label_list = <<>>
    /\ gsm_metadata = <<>>
    /\ disease_label \in {"AD", "OA"}
    /\ sample_label = "none"
    /\ LoadIdle
    /\ CollapseIdle
    /\ MergeIdle
    /\ DeIdle
    /\ CommonIdle

NextTrain == load_cohort \/ merge_and_batch_correct

SpecTrain == InitTrain /\ [][NextTrain]_vars

----------------------------------------------------------------------------
(* pipeline/differential_expression.py: differential_expression_analysis *)

\* a comparison in which an undefined left operand is less than anything
FracLessNanFirst(a, b) ==
    IF a = NaN THEN TRUE
    ELSE b /= NaN /\ a[1] * b[2] < b[1] * a[2]

\* a < b on fractions with positive denominators; false when either is NaN
FracLess(a, b) == a /= NaN /\ b /= NaN /\ a[1] * b[2] < b[1] * a[2]
FracLessEq(a, b) == a /= NaN /\ b /= NaN /\ a[1] * b[2] <= b[1] * a[2]
FracNeg(a) == IF a = NaN THEN NaN ELSE <<0 - a[1], a[2]>>

\* Series.unique(): the distinct values in order of first appearance
RECURSIVE Unique(_, _)
Unique(s, seen) ==
    IF s = <<>> THEN <<>>
    ELSE IF Head(s) \in seen THEN Unique(Tail(s), seen)
    ELSE <<Head(s)>> \o Unique(Tail(s), seen \cup {Head(s)})

\* an analysis that takes every label, Control included, as a condition
AllConditions(labs) == Unique(labs, {})

\* line 16: labels[labels != 'Control'].unique()
DiseaseConditions(labs) ==
    Unique(SelectSeq(labs, LAMBDA l : l /= "Control"), {})

\* a selection whose disease group takes every sample that is not Control
GroupCellsNotControl(df, labs, name, g) ==
    LET rows == SelectSeq([r \in 1..NRows(df) |-> r],
                    LAMBDA r : \/ labs[r] = name
                               \/ name /= "Control" /\ labs[r] /= "Control")
    IN  [i \in 1..Len(rows) |-> df.values[rows[i]][g]]

\* lines 27-28: expression_data.loc[mask, gene] for mask = (labels == name)
GroupCells(df, labs, name, g) ==
    LET rows == SelectSeq([r \in 1..NRows(df) |-> r],
                          LAMBDA r : labs[r] = name)
    IN  [i \in 1..Len(rows) |-> df.values[rows[i]][g]]

\* line 35: log2((mean_disease + 0.001) / (mean_control + 0.001)), in tenths.
\* The logarithm is not computed: the result is any of a few magnitudes with
\* the sign the two means give it, NaN when a mean is NaN.
Log2FCChoices(mean_control, mean_disease) ==
    IF mean_control = NaN \/ mean_disease = NaN THEN {NaN}
    ELSE IF FracLess(mean_control, mean_disease)
    THEN {<<5, 10>>, <<10, 10>>, <<12, 10>>}
    ELSE IF FracLess(mean_disease, mean_control)
    THEN {<<0 - 5, 10>>, <<0 - 10, 10>>, <<0 - 12, 10>>}
    ELSE {<<0, 10>>}

\* line 37: the p-value of scipy's ttest_ind, in thousandths: NaN when a
\* group is empty, otherwise any of a few values or NaN (degenerate groups)
PValueChoices(control_expr, disease_expr) ==
    IF control_expr = <<>> \/ disease_expr = <<>> THEN {NaN}
    ELSE {<<1, 1000>>, <<30, 1000>>, <<800, 1000>>, NaN}

\* lines 52-54: Benjamini-Hochberg adjusted p-value of test i among ps:
\* the least p[k] * m / rank(k) over the tests k with p[k] >= p[i], at most
\* 1; every adjusted value is NaN when a raw p-value is NaN
RECURSIVE FracMin(_)
FracMin(S) ==
    LET x == CHOOSE y \in S : TRUE
    IN  IF S = {x} THEN x
        ELSE LET m == FracMin(S \ {x})
             IN  IF FracLess(x, m) THEN x ELSE m

AdjustedP(ps, i) ==
    IF \E k \in 1..Len(ps) : ps[k] = NaN THEN NaN
    ELSE LET Rank(k) == Cardinality({l \in 1..Len(ps) :
                                        FracLessEq(ps[l], ps[k])})
             cands == {Fraction(ps[k][1] * Len(ps), ps[k][2] * Rank(k)) :
                          k \in {l \in 1..Len(ps) : FracLessEq(ps[i], ps[l])}}
         IN  FracMin(cands \cup {<<1, 1>>})

\* a classification whose fold-change tests are not strict
RegulationNotStrict(adj, log2fc, pthr, lfc) ==
    LET up   == FracLess(adj, pthr) /\ FracLessEq(lfc, log2fc)
        down == FracLess(adj, pthr) /\ FracLessEq(log2fc, FracNeg(lfc))
    IN  IF down THEN "Downregulated"
        ELSE IF up THEN "Upregulated" ELSE "Not Significant"

\* lines 56-64: the Regulation column; the Downregulated assignment is the
\* later one
Regulation(adj, log2fc, pthr, lfc) ==
    LET upregulated   == FracLess(adj, pthr) /\ FracLess(lfc, log2fc)
        downregulated == FracLess(adj, pthr) /\ FracLess(log2fc, FracNeg(lfc))
    IN  IF downregulated THEN "Downregulated"
        ELSE IF upregulated THEN "Upregulated" ELSE "Not Significant"

Log2FCValues ==
    {NaN, <<0, 10>>, <<5, 10>>, <<10, 10>>, <<12, 10>>,
     <<0 - 5, 10>>, <<0 - 10, 10>>, <<0 - 12, 10>>}
PValues == {NaN, <<1, 1000>>, <<30, 1000>>, <<800, 1000>>}

\* an analysis that takes columns with the same label for different genes
HasRepeatedColumnNever(df) == FALSE

\* lines 27-28: expression_data.loc[mask, gene] selects every column that
\* carries the label gene
HasRepeatedColumn(df) ==
    \E i, j \in 1..NCols(df) : i /= j /\ df.columns[i] = df.columns[j]

\* lines 21-64 for one outcome (log2fc, ps) of the numerical routines
DeTable(df, labs, pthr, lfc, log2fc, ps) ==
    LET disease_name == DiseaseConditions(labs)[1]
    IN  [g \in 1..NCols(df) |->
            [Gene         |-> df.columns[g],
             Mean_Control |-> MeanCells(GroupCells(df, labs, "Control", g)),
             Mean_Disease |-> MeanCells(GroupCells(df, labs, disease_name, g)),
             Log2FC       |-> log2fc[g],
             P_Value      |-> ps[g],
             Adj_P_Value  |-> AdjustedP(ps, g),
             Regulation   |-> Regulation(AdjustedP(ps, g), log2fc[g],
                                         pthr, lfc)]]

differential_expression_analysis ==
    /\ pc = "de"
    /\ IF Len(DiseaseConditions(labels)) = 0               \* lines 18-19
       THEN /\ de_status' = "ValueError"
            /\ genes_done' = 0
            /\ df_results' = <<>>
       ELSE IF HasRepeatedColumn(expression_data)
       \* lines 27-52: with a repeated label the selections are two-
       \* dimensional, the statistics of a gene are arrays, and multipletests
       \* cannot order a P_Value column of arrays
       THEN /\ de_status' = "ValueError"
            /\ genes_done' = NCols(expression_data)
            /\ df_results' = <<>>
       ELSE LET disease_name == DiseaseConditions(labels)[1]
                Control(g) == GroupCells(expression_data, labels, "Control", g)
                Disease(g) == GroupCells(expression_data, labels,
                                         disease_name, g)
                m == NCols(expression_data)
            IN  \E log2fc \in [1..m -> Log2FCValues], ps \in [1..m -> PValues] :
                  /\ \A g \in 1..m :
                        /\ log2fc[g] \in Log2FCChoices(MeanCells(Control(g)),
                                                       MeanCells(Disease(g)))
                        /\ ps[g] \in PValueChoices(Control(g), Disease(g))
                  /\ de_status' = "returned"
                  /\ genes_done' = m
                  /\ df_results' = DeTable(expression_data, labels,
                                           pvalue_threshold, logfc_threshold,
                                           log2fc, ps)
    /\ pc' = "done"
    /\ UNCHANGED inferVars
    /\ UNCHANGED <<expression_data, labels, pvalue_threshold, logfc_threshold,
                   trainVars, loadVars, mergeVars, collapseVars, labelVars,
                   commonVars>>

\* sample values of a gene: rising or falling with the row, or constant
ProfileValue(kind, r) ==
    IF kind = "rise" THEN r
    ELSE IF kind = "fall" THEN MaxSamples + 1 - r ELSE 2

Profiles == {<<"rise", "fall">>, <<"fall", "flat">>, <<"flat", "rise">>}

DeFrame(profile, n) ==
    [columns |-> <<gA, gB>>,
     index   |-> RowIndex(GseId(1), n),
     values  |-> [r \in 1..n |->
                    [g \in 1..2 |-> Num(ProfileValue(profile[g], r))]]]

\* column labels of the analysed matrices: distinct, or one label twice
DeColumns == {<<gA, gB>>, <<gA, gA>>}

InitDe ==
    /\ InferIdle
    /\ pc = "de"
    /\ labels \in SeqsUpTo({"Control", "AD", "OA"}, MaxSamples)
    /\ \E profile \in Profiles, cols \in DeColumns :
          expression_data =
              [DeFrame(profile, Len(labels)) EXCEPT !.columns = cols]
    /\ pvalue_threshold = <<50, 1000>>
    /\ logfc_threshold \in {<<5, 10>>, <<10, 10>>}
    /\ de_status = "none"
    /\ genes_done = 0
    /\ df_results = <<>>
    /\ MergeIdle
    /\ TrainIdle
    /\ LoadIdle
    /\ CollapseIdle
    /\ LabelIdle
    /\ CommonIdle
    /\ expr_list = <<>>
    /\ label_list = <<>>

NextDe == differential_expression_analysis

SpecDe == InitDe /\ [][NextDe]_vars

----------------------------------------------------------------------------
(* pipeline/differential_expression.py: find_common_degs *)

\* lines 82-86: set(degs[degs['Regulation'] == category]['Gene'])
GenesOf(degs, category) ==
    {degs[i].Gene : i \in {j \in 1..Len(degs) : degs[j].Regulation = category}}

\* an intersection that compares the first table's Downregulated genes with
\* the second table's Upregulated genes
CommonDownMixed(d1, d2) ==
    GenesOf(d1, "Downregulated") \cap GenesOf(d2, "Upregulated")

\* line 88
CommonUp(d1, d2) ==
    GenesOf(d1, "Upregulated") \cap GenesOf(d2, "Upregulated")
\* line 89
CommonDown(d1, d2) ==
    GenesOf(d1, "Downregulated") \cap GenesOf(d2, "Downregulated")

\* lines 111-115: list(set) is any enumeration of the set; the same set
\* object is enumerated in the same order both times
find_common_degs ==
    /\ pc = "common"
    /\ \E up \in Perms(CommonUp(degs1, degs2)),
          down \in Perms(CommonDown(degs1, degs2)) :
          co_degs' = [upregulated   |-> up,
                      downregulated |-> down,
                      all           |-> up \o down]
    /\ pc' = "done"
    /\ UNCHANGED inferVars
    /\ UNCHANGED <<degs1, degs2, trainVars, loadVars, mergeVars, collapseVars,
                   labelVars, deVars>>

\* DifferentialResult tables, one row per gene, reduced to the two columns
\* find_common_degs reads
Categories == {"Upregulated", "Downregulated", "Not Significant"}

DegTables ==
    UNION {
      {[i \in 1..Len(genes) |-> [Gene |-> genes[i], Regulation |-> reg[i]]] :
          reg \in [1..Len(genes) -> Categories]} :
      genes \in {<<>>, <<gA>>, <<gA, gB>>, <<gB, gC>>, <<gA, gB, gC>>}}

InitCommon ==
    /\ InferIdle
    /\ pc = "common"
    /\ degs1 \in DegTables
    /\ degs2 \in DegTables
    /\ co_degs = [upregulated |-> <<>>, downregulated |-> <<>>, all |-> <<>>]
    /\ MergeIdle
    /\ TrainIdle
    /\ LoadIdle
    /\ CollapseIdle
    /\ LabelIdle
    /\ DeIdle
    /\ expr_list = <<>>
    /\ label_list = <<>>

NextCommon == find_common_degs

SpecCommon == InitCommon /\ [][NextCommon]_vars

----------------------------------------------------------------------------
(* pipeline/main.py: the two analyses whose tables find_common_degs gets *)

\* the two columns of a DifferentialResult table find_common_degs reads
DegColumns(tbl) ==
    [i \in 1..Len(tbl) |->
        [Gene |-> tbl[i].Gene, Regulation |-> tbl[i].Regulation]]

\* label vectors of the analysed cohorts: a Control sample and two samples
\* of the disease
CohortLabelChoices ==
    {<<"Control", "AD", "AD">>, <<"OA", "Control", "OA">>}

\* the matrices handed to an analysis together with their labels
AnalysisInputs ==
    {[labels |-> labs,
      data   |-> [DeFrame(profile, Len(labs)) EXCEPT !.columns = cols]] :
        labs \in CohortLabelChoices, profile \in Profiles,
        cols \in DeColumns}

\* main.py lines 71-81: degs_ad is kept and the second cohort is analysed
keep_degs_ad ==
    /\ pc = "done"
    /\ de_status = "returned"
    /\ degs1 = <<>>
    /\ degs1' = DegColumns(df_results)
    /\ \E input \in AnalysisInputs :
          /\ labels' = input.labels
          /\ expression_data' = input.data
    /\ de_status' = "none"
    /\ genes_done' = 0
    /\ df_results' = <<>>
    /\ pc' = "de"
    /\ UNCHANGED inferVars
    /\ UNCHANGED <<degs2, co_degs, pvalue_threshold, logfc_threshold,
                   trainVars, loadVars, mergeVars, collapseVars, labelVars>>

\* main.py lines 77-108: degs_oa is kept and both tables are handed to
\* find_common_degs
keep_degs_oa ==
    /\ pc = "done"
    /\ de_status = "returned"
    /\ degs1 /= <<>>
    /\ degs2 = <<>>
    /\ degs2' = DegColumns(df_results)
    /\ pc' = "common"
    /\ UNCHANGED inferVars
    /\ UNCHANGED <<degs1, co_degs, deVars, trainVars, loadVars, mergeVars,
                   collapseVars, labelVars>>

InitCoDegs ==
    /\ InferIdle
    /\ pc = "de"
    /\ \E input \in AnalysisInputs :
          /\ labels = input.labels
          /\ expression_data = input.data
    /\ pvalue_threshold = <<50, 1000>>
    /\ logfc_threshold = <<5, 10>>
    /\ de_status = "none"
    /\ genes_done = 0
    /\ df_results = <<>>
    /\ CommonIdle
    /\ MergeIdle
    /\ TrainIdle
    /\ LoadIdle
    /\ CollapseIdle
    /\ LabelIdle
    /\ expr_list = <<>>
    /\ label_list = <<>>

NextCoDegs ==
    \/ differential_expression_analysis
    \/ keep_degs_ad
    \/ keep_degs_oa
    \/ find_common_degs

SpecCoDegs == InitCoDegs /\ [][NextCoDegs]_vars

----------------------------------------------------------------------------
(* Claims about merge_and_batch_correct, checked under SpecMerge *)

MergeReturned == pc = "done" /\ merge_status = "returned"

\* the cohorts that contribute at least one column of common_genes
SurvivingCohorts ==
    {j \in 1..Len(expr_list) :
        Range(expr_list[j].columns) \cap Range(common_genes) /= {}}

\* C1: whenever the merge of a non-empty cohort list returns, the returned
\* columns are exactly the set intersection of the surviving cohorts'
\* columns, and the returned row count and label count both equal the sum
\* of the surviving cohorts' row counts.
C1_MergeColumnsAndRows ==
    (MergeReturned /\ expr_list /= <<>>) =>
        /\ SurvivingCohorts /= {}
        /\ Range(expr_merged.columns) =
              {g \in UNION {Range(expr_list[j].columns) :
                               j \in 1..Len(expr_list)} :
                  \A j \in SurvivingCohorts :
                      g \in Range(expr_list[j].columns)}
        /\ NRows(expr_merged) =
              SumSeq([j \in 1..Len(expr_list) |->
                         IF j \in SurvivingCohorts
                         THEN NRows(expr_list[j]) ELSE 0])
        /\ Len(expr_merged.values) = NRows(expr_merged)
        /\ Len(labels_merged.values) = NRows(expr_merged)

\* three cohorts with different column sets were merged onto a proper,
\* non-empty intersection
C1_Witness ==
    /\ MergeReturned
    /\ Len(expr_list) = 3
    /\ NCols(expr_merged) = 2
    /\ \E j \in 1..3 : NCols(expr_list[j]) = 3
    /\ NRows(expr_merged) > 3

\* C2: merging a single cohort returns that cohort's matrix and labels
\* unchanged (rows, columns, cells, labels) and py_combat is never invoked.
C2_SingleCohortUnchanged ==
    (pc = "done" /\ Len(expr_list) = 1) =>
        /\ merge_status = "returned"
        /\ expr_merged = expr_list[1]
        /\ labels_merged = label_list[1]
        /\ combat_calls = 0

\* a single cohort with two rows and an unsorted column list was merged
C2_Witness ==
    /\ pc = "done"
    /\ Len(expr_list) = 1
    /\ expr_list[1].columns = <<gB, gA>>
    /\ NRows(expr_merged) = 2

\* C3: for every non-empty cohort list the merge returns a matrix with
\* unique columns and one label per row at the same position; it never ends
\* with an error.
C3_MergeAlwaysReturns ==
    (pc = "done" /\ expr_list /= <<>>) =>
        /\ merge_status = "returned"
        /\ Cardinality(Range(expr_merged.columns)) = NCols(expr_merged)
        /\ labels_merged.index = expr_merged.index

\* the cell of gene g in the row named rowid of the input cohort j
InputCell(j, rowid, g) ==
    LET df == expr_list[j]
        r  == CHOOSE q \in 1..NRows(df) : df.index[q] = rowid
    IN  df.values[r][ColPos(df, g)]

\* the genes every input cohort has
SharedGenes ==
    {g \in Range(expr_list[1].columns) :
        \A j \in 1..Len(expr_list) : g \in Range(expr_list[j].columns)}

\* the returned matrix holds, row by row in input order, the input cells of
\* the shared genes, and the returned labels are the input labels
UncorrectedMerge ==
    /\ Range(expr_merged.columns) = SharedGenes
    /\ Cardinality(SharedGenes) = NCols(expr_merged)
    /\ expr_merged.index =
          Flatten([j \in 1..Len(expr_list) |-> expr_list[j].index])
    /\ \A k \in 1..NRows(expr_merged), c \in 1..NCols(expr_merged) :
          expr_merged.values[k][c] =
              InputCell(expr_merged.index[k][1][2], expr_merged.index[k],
                        expr_merged.columns[c])
    /\ labels_merged.index = expr_merged.index
    /\ labels_merged.values =
          Flatten([j \in 1..Len(label_list) |-> label_list[j].values])

\* C11: when the batch correction fails (the library cannot be imported or
\* py_combat raises), merge_and_batch_correct does not raise: it returns the
\* uncorrected concatenation of the intersected cohorts and the merged
\* labels.
C11_FallbackOnFailure ==
    (pc = "done" /\ merge_warnings = 1) =>
        /\ merge_status = "returned"
        /\ UncorrectedMerge

\* py_combat was called on three cohorts and raised
C11_Witness ==
    /\ pc = "done"
    /\ Len(expr_list) = 3
    /\ combat_calls = 1
    /\ merge_warnings = 1
    /\ NCols(expr_merged) = 2
    /\ NRows(expr_merged) >= 4

\* batch correction was attempted (line 108) and the merger returned
CorrectionWasAttempted ==
    /\ pc = "done"
    /\ merge_status = "returned"
    /\ Len(expr_list) > 1
    /\ Len(common_genes) > 0

\* the returned matrix is the one rebuilt from py_combat's result
CorrectionWasApplied == combat_calls = 1 /\ merge_warnings = 0

\* C12: every time batch correction is attempted but not applied, a warning
\* reaches the caller, also when the merge runs under the entry point
\* (checked under SpecSession).
C12_SkippedCorrectionWarns ==
    (CorrectionWasAttempted /\ ~CorrectionWasApplied) => warnings_shown >= 1

\* C13: two merges of the same list of two or more cohorts return their
\* columns in the same order (checked under SpecSession).
C13_ColumnOrderRepeats ==
    (pc = "done" /\ merge_calls = 2 /\ merge_status = "returned"
        /\ Len(expr_list) >= 2) =>
        expr_merged.columns = first_columns

\* C14: whenever merge_and_batch_correct builds a batch vector, its length
\* is the merged row count, its k-th entry is the position (from 0) in the
\* input list of the cohort that contributed the k-th merged row, and the
\* length test passes, so py_combat is called; when correction is attempted
\* and no vector exists the import has failed (checked under SpecMerge).
C14_BatchVectorAligned ==
    /\ (pc = "done" /\ batch_vec /= <<>>) =>
          /\ CorrectionWasAttempted
          /\ Len(batch_vec) = NRows(expr_merged)
          /\ \A k \in 1..Len(batch_vec) :
                expr_merged.index[k][1] = GseId(batch_vec[k] + 1)
          /\ combat_calls = 1
    /\ (CorrectionWasAttempted /\ batch_vec = <<>>) =>
          (combat_calls = 0 /\ merge_warnings = 1)

\* a batch vector over three cohorts, the second with two rows
C14_Witness ==
    /\ pc = "done"
    /\ batch_vec = <<0, 1, 1, 2>>
    /\ NRows(expr_merged) = 4
    /\ combat_calls = 1
    /\ merge_warnings = 0

----------------------------------------------------------------------------
(* Claims about collapse_probes_to_genes, checked under SpecCollapse *)

RECURSIVE SumOver(_, _)
SumOver(S, f) ==
    IF S = {} THEN <<0, 1>>
    ELSE LET x == CHOOSE y \in S : TRUE
         IN  AddFrac(f[x], SumOver(S \ {x}, f))

\* cell is the arithmetic mean of the cells of row r of df in the columns
\* cols that hold a value (NaN when none does)
IsMeanOf(cell, df, r, cols) ==
    LET present == {c \in cols : df.values[r][c] /= NaN}
        total   == SumOver(present, df.values[r])
    IN  IF present = {} THEN cell = NaN
        ELSE /\ cell /= NaN
             /\ cell[1] * total[2] * Cardinality(present) = total[1] * cell[2]

\* the columns of df whose identifier the map m sends to a text with
\* Norm(text) = g
ColumnsOnto(df, m, g, Norm(_)) ==
    {c \in 1..NCols(df) :
        /\ df.columns[c] \in DOMAIN m
        /\ NotNa(m[df.columns[c]])
        /\ Norm(StrOf(m[df.columns[c]])) = g}

\* the distinct non-empty target texts of the map, each passed through Norm
Targets(m, Norm(_)) ==
    {Norm(StrOf(m[p])) : p \in {q \in DOMAIN m : NotNa(m[q])}} \ {<<>>}

Identity(s) == s

CollapseClaim(Norm(_)) ==
    pc = "done" =>
        /\ Cardinality(Range(gene_expr.columns)) = NCols(gene_expr)
        /\ Range(gene_expr.columns) \subseteq Targets(probe_to_gene, Norm)
        /\ gene_expr.index = probe_expr.index
        /\ \A r \in 1..NRows(gene_expr), g \in 1..NCols(gene_expr) :
              IsMeanOf(gene_expr.values[r][g], probe_expr, r,
                       ColumnsOnto(probe_expr, probe_to_gene,
                                   gene_expr.columns[g], Norm))

\* C7 as stated: the output columns are unique, a subset of the map's
\* distinct non-empty target gene symbols, and every output cell is the
\* arithmetic mean of the input columns whose identifier maps to that symbol.
C7_CollapseOntoTargets == CollapseClaim(Identity)

\* C7 as amended: the output columns are unique, a subset of the map's
\* non-empty target gene symbols after surrounding whitespace is stripped,
\* and every output cell is the arithmetic mean of the non-missing values of
\* the input columns whose identifier maps to that symbol once stripped.
C7_CollapseOntoStrippedTargets == CollapseClaim(Strip)

\* two probes, one of them with a padded symbol, were averaged into gene A
\* in a row where both hold a value
C7_Witness ==
    /\ pc = "done"
    /\ gene_expr.columns = <<gA>>
    /\ Cardinality(ColumnsOnto(probe_expr, probe_to_gene, gA, Strip)) = 2
    /\ Cardinality(ColumnsOnto(probe_expr, probe_to_gene, gA, Identity)) = 1
    /\ \E r \in 1..NRows(gene_expr) : gene_expr.values[r][1] = Num(5)

----------------------------------------------------------------------------
(* Claims about get_sample_labels, checked under SpecLabels *)

\* the lower-cased text of a metadata field, empty when the key is absent
FieldText(k) ==
    IF k \in DOMAIN gsm_metadata THEN KeyText(gsm_metadata[k]) ELSE <<>>

\* the disease-indicating substrings the claim lists
ListedDiseaseTexts ==
    {W_alzheimer, W_demented, W_disease, W_osteoarthritis, W__oa_,
     W_oa_patient}

ControlWithout(diseaseTexts) ==
    /\ \/ Contains(FieldText("title"), W_control)
       \/ Contains(FieldText("characteristics_ch1"), W_control)
    /\ \A k \in DOMAIN gsm_metadata :
          ~ContainsAny(FieldText(k), diseaseTexts)

ClaimedDecision(text, diseaseTexts) ==
    IF ContainsAny(text, ControlPatterns) THEN "Control"
    ELSE IF ContainsAny(text, diseaseTexts) THEN disease_label
    ELSE IF ContainsAny(text, LateControlPatterns) THEN "Control"
    ELSE "next"

\* the label of the first present key, in the order characteristics, title,
\* source description, that decides; the title fallback when none decides
ClaimedLabel(diseaseTexts) ==
    LET order    == <<"characteristics_ch1", "title", "source_name_ch1">>
        present  == SelectSeq(order, LAMBDA k : k \in DOMAIN gsm_metadata)
        decision == [i \in 1..Len(present) |->
                        ClaimedDecision(FieldText(present[i]), diseaseTexts)]
        deciding == SelectSeq([i \in 1..Len(present) |-> i],
                              LAMBDA i : decision[i] /= "next")
    IN  IF deciding /= <<>> THEN decision[deciding[1]]
        ELSE IF Contains(FieldText("title"), W_control) THEN "Control"
        ELSE disease_label

----------------------------------------------------------------------------
(* Claims about differential_expression_analysis, checked under SpecDe *)

\* C4: with no non-Control label in the label vector (only "Control", or no
\* labels at all) the analysis fails with the ValueError before any per-gene
\* statistic is computed and returns no table.
C4_NoDiseaseGroupFails ==
    (pc = "done" /\ \A i \in 1..Len(labels) : labels[i] = "Control") =>
        /\ de_status = "ValueError"
        /\ genes_done = 0
        /\ df_results = <<>>

\* the analysis was run on a matrix whose samples are all Control
C4_Witness ==
    /\ pc = "done"
    /\ Len(labels) >= 2
    /\ NRows(expression_data) = Len(labels)
    /\ \A i \in 1..Len(labels) : labels[i] = "Control"
    /\ de_status = "ValueError"

\* C5: every gene of the result is Upregulated exactly when its adjusted
\* p-value is below pvalue_threshold and its Log2FC above logfc_threshold,
\* Downregulated exactly when the adjusted p-value is below pvalue_threshold
\* and Log2FC below -logfc_threshold, and Not Significant otherwise.
C5_RegulationCategories ==
    (pc = "done" /\ de_status = "returned") =>
        \A i \in 1..Len(df_results) :
            LET row  == df_results[i]
                sig  == FracLess(row.Adj_P_Value, pvalue_threshold)
                up   == sig /\ FracLess(logfc_threshold, row.Log2FC)
                down == sig /\ FracLess(row.Log2FC, FracNeg(logfc_threshold))
            IN  /\ row.Regulation \in
                      {"Upregulated", "Downregulated", "Not Significant"}
                /\ (row.Regulation = "Upregulated") <=> up
                /\ (row.Regulation = "Downregulated") <=> down
                /\ (row.Regulation = "Not Significant") <=> (~up /\ ~down)

\* one table holds an Upregulated gene, and a gene that is Not Significant
\* only because its Log2FC equals the threshold
C5_Witness ==
    /\ pc = "done"
    /\ de_status = "returned"
    /\ \E i, j \in 1..Len(df_results) :
          /\ df_results[i].Regulation = "Upregulated"
          /\ df_results[j].Regulation = "Not Significant"
          /\ FracLess(df_results[j].Adj_P_Value, pvalue_threshold)
          /\ df_results[j].Log2FC = FracNeg(logfc_threshold)

\* cell is the arithmetic mean of column g of df over the rows in rows that
\* hold a value (NaN when none does)
IsColumnMean(cell, df, g, rows) ==
    LET column  == [r \in 1..NRows(df) |-> df.values[r][g]]
        present == {r \in rows : column[r] /= NaN}
        total   == SumOver(present, column)
    IN  IF present = {} THEN cell = NaN
        ELSE /\ cell /= NaN
             /\ cell[1] * total[2] * Cardinality(present) = total[1] * cell[2]

\* the samples carrying the label name
SamplesLabelled(name) == {r \in 1..Len(labels) : labels[r] = name}

\* the non-Control label that occurs first in the label vector
FirstDiseaseLabel ==
    labels[CHOOSE r \in 1..Len(labels) :
              /\ labels[r] /= "Control"
              /\ \A q \in 1..(r - 1) : labels[q] = "Control"]

\* C20: the disease group of every gene is the set of samples carrying the
\* non-Control label that occurs first in the label vector and the Control
\* group the samples labelled Control; samples with another non-Control
\* label enter neither mean, and the fold change has the sign those two
\* means give it.
C20_FirstDiseaseLabelOnly ==
    (pc = "done" /\ de_status = "returned") =>
        \A g \in 1..Len(df_results) :
            LET row == df_results[g]
            IN  /\ IsColumnMean(row.Mean_Disease, expression_data, g,
                                SamplesLabelled(FirstDiseaseLabel))
                /\ IsColumnMean(row.Mean_Control, expression_data, g,
                                SamplesLabelled("Control"))
                /\ SamplesLabelled("Control") = {} => row.P_Value = NaN
                /\ SamplesLabelled("Control") /= {} =>
                      (FracLess(<<0, 1>>, row.Log2FC)
                          <=> FracLess(row.Mean_Control, row.Mean_Disease))

\* the label vector holds OA, then AD, then Control: OA is the disease
\* group and the AD sample is left out of both means
C20_Witness ==
    /\ pc = "done"
    /\ de_status = "returned"
    /\ labels = <<"OA", "AD", "Control">>
    /\ df_results[1].Mean_Disease = expression_data.values[1][1]
    /\ df_results[1].Mean_Control = expression_data.values[3][1]
    /\ df_results[1].Mean_Disease /= expression_data.values[2][1]

\* the label vector holds a non-Control label and no Control label, and the
\* matrix has the distinct gene columns of an ExpressionMatrix
ControlGroupEmpty ==
    /\ labels /= <<>>
    /\ \A r \in 1..Len(labels) : labels[r] /= "Control"
    /\ \A i, j \in 1..Len(expression_data.columns) :
          expression_data.columns[i] = expression_data.columns[j] => i = j

\* C25: with a non-Control label and no Control label the analysis does not
\* raise; it returns one row per gene, in column order, whose Control mean
\* is NaN, and every gene is classified Not Significant.
C25_EmptyControlGroup ==
    (pc = "done" /\ ControlGroupEmpty) =>
        /\ de_status = "returned"
        /\ Len(df_results) = Len(expression_data.columns)
        /\ \A g \in 1..Len(df_results) :
              /\ df_results[g].Gene = expression_data.columns[g]
              /\ df_results[g].Mean_Control = NaN
              /\ df_results[g].Regulation = "Not Significant"

\* three disease samples and no Control sample: two rows, the disease mean
\* defined, the Control mean not
C25_Witness ==
    /\ pc = "done"
    /\ ControlGroupEmpty
    /\ labels = <<"AD", "OA", "AD">>
    /\ de_status = "returned"
    /\ Len(df_results) = 2
    /\ df_results[1].Mean_Control = NaN
    /\ df_results[1].Mean_Disease /= NaN
    /\ df_results[1].Regulation = "Not Significant"

----------------------------------------------------------------------------
(* Claims about find_common_degs, checked under SpecCommon *)

RegulationIn(degs, gene) ==
    {degs[i].Regulation : i \in {j \in 1..Len(degs) : degs[j].Gene = gene}}

Significant(degs, gene) ==
    RegulationIn(degs, gene) \cap {"Upregulated", "Downregulated"} /= {}

\* C6: 'upregulated' is, as a set, the intersection of the two tables'
\* Upregulated genes, 'downregulated' the intersection of their
\* Downregulated genes, 'all' is the upregulated list followed by the
\* downregulated list, and a gene regulated in opposite directions in the two
\* tables or significant in only one of them is in none of the lists.
C6_CommonDegs ==
    pc = "done" =>
        /\ Range(co_degs.upregulated) =
              {g \in {gA, gB, gC} :
                  /\ "Upregulated" \in RegulationIn(degs1, g)
                  /\ "Upregulated" \in RegulationIn(degs2, g)}
        /\ Range(co_degs.downregulated) =
              {g \in {gA, gB, gC} :
                  /\ "Downregulated" \in RegulationIn(degs1, g)
                  /\ "Downregulated" \in RegulationIn(degs2, g)}
        /\ co_degs.all = co_degs.upregulated \o co_degs.downregulated
        /\ Len(co_degs.all) =
              Cardinality(Range(co_degs.upregulated))
              + Cardinality(Range(co_degs.downregulated))
        /\ \A g \in {gA, gB, gC} :
              (\/ RegulationIn(degs1, g) /= RegulationIn(degs2, g)
               \/ ~Significant(degs1, g)
               \/ ~Significant(degs2, g))
              => g \notin Range(co_degs.all)

\* one gene is up in both tables, one down in both, and one up in the first
\* and down in the second
C6_Witness ==
    /\ pc = "done"
    /\ Len(co_degs.upregulated) = 1
    /\ Len(co_degs.downregulated) = 1
    /\ Len(co_degs.all) = 2
    /\ \E g \in {gA, gB, gC} :
          /\ RegulationIn(degs1, g) = {"Upregulated"}
          /\ RegulationIn(degs2, g) = {"Downregulated"}

----------------------------------------------------------------------------
(* Claims about load_single_gse, checked under SpecLoad *)

\* the gene symbol of each annotation row as the platform table holds it,
\* keyed by the row's identifier
AnnotationSymbols(tbl) ==
    IndexedBy(tbl, TableCol(tbl, N_ID),
              LAMBDA row : row[TableCol(tbl, N_Gene_Symbol)])

\* the load returned a matrix after Probe Aggregation with the map built
\* from an ID / Gene Symbol annotation table
LoadedThroughAnnotation ==
    /\ pc = "done"
    /\ load_status = "returned"
    /\ NRows(probe_expr) > 0
    /\ gse.gpls /= <<>>
    /\ gse.gpls[1].columns = <<N_ID, N_Gene_Symbol>>
    /\ gse.gpls[1].rows /= <<>>

\* C8: a column whose identifier is absent from the annotation, or whose
\* annotation row holds an empty, blank or missing gene symbol, contributes
\* to no output column of load_single_gse: every gene column of the result
\* comes from at least one probe with a usable symbol and is the mean of
\* exactly the probes whose symbol it is.
C8_UnannotatedProbesDropped ==
    LoadedThroughAnnotation =>
        LET anno == AnnotationSymbols(gse.gpls[1])
        IN  \A g \in 1..NCols(gene_expr) :
               LET from == ColumnsOnto(probe_expr, anno,
                                       gene_expr.columns[g], Strip)
               IN  /\ from /= {}
                   /\ \A r \in 1..NRows(gene_expr) :
                         IsMeanOf(gene_expr.values[r][g], probe_expr, r, from)

\* the table of sample i, when it has one with at least one row and column
Usable(i) ==
    /\ gse.gsms[i].table /= <<>>
    /\ ~TableEmpty(gse.gsms[i].table[1])

UsableSamples == SelectSeq([i \in 1..Len(gse.gsms) |-> i], Usable)

\* the samples whose table has both columns of the pair cols
RetainedSamples(cols) ==
    SelectSeq(UsableSamples,
              LAMBDA i : /\ HasColumn(gse.gsms[i].table[1], cols[1])
                         /\ HasColumn(gse.gsms[i].table[1], cols[2]))

\* the numeric value table tbl holds for identifier p under the pair cols,
\* NaN when it holds none
ExtractedCell(tbl, cols, p) ==
    LET ic   == TableCol(tbl, cols[1])
        vc   == TableCol(tbl, cols[2])
        rows == {r \in 1..Len(tbl.rows) : tbl.rows[r][ic].s = p}
    IN  IF rows = {} THEN NaN
        ELSE ToNumeric(tbl.rows[CHOOSE r \in rows : TRUE][vc])

\* C15: the identifier and value columns are those inferred on the first
\* sample with a non-empty table, and every row of the matrix built from
\* the samples was extracted with that one pair, whatever the later
\* samples' tables contain.
C15_ColumnsResolvedOnce ==
    (pc = "done" /\ load_status = "returned") =>
        IF UsableSamples = <<>> THEN resolved_cols = <<>>
        ELSE
        LET first == gse.gsms[UsableSamples[1]].table[1]
            kept  == RetainedSamples(resolved_cols)
        IN  /\ resolved_cols =
                  <<InferIdColumn(first).col, InferValueColumn(first).col>>
            /\ NRows(probe_expr) = Len(kept)
            /\ \A r \in 1..Len(kept), c \in 1..NCols(probe_expr) :
                  probe_expr.values[r][c] =
                      ExtractedCell(gse.gsms[kept[r]].table[1],
                                    resolved_cols, probe_expr.columns[c])

\* the pair was resolved on a VALUE table and a later Signal table, on which
\* inference would give another pair, was passed over
C15_Witness ==
    /\ pc = "done"
    /\ load_status = "returned"
    /\ Len(gse.gsms) = 2
    /\ resolved_cols = <<N_ID_REF, N_VALUE>>
    /\ Usable(2)
    /\ InferValueColumn(gse.gsms[2].table[1]).col = N_Signal
    /\ NRows(probe_expr) = 1

\* the load raised although the annotation table and the first usable
\* sample's table both let their columns be inferred
RaisedOnSamples ==
    /\ load_status /= "returned"
    /\ ProbeToGene(gse.gpls).status = "returned"
    /\ UsableSamples /= <<>> =>
          LET first == gse.gsms[UsableSamples[1]].table[1]
          IN  /\ InferIdColumn(first).status = "returned"
              /\ InferValueColumn(first).status = "returned"

\* C16: a sample whose table is absent, empty or lacks a resolved column is
\* passed over without an exception and gives neither a row nor a label;
\* the rows and the labels of the result are those of the retained samples
\* in sample order under the ids <cohortId>_<k>, k = 0..n-1; with no
\* retained sample the result is the empty matrix with empty labels.
C16_SkippedSamples ==
    (pc = "done" /\ gse.fetch = "ok") =>
        /\ ~RaisedOnSamples
        /\ load_status = "returned" =>
              LET kept == IF resolved_cols = <<>> THEN <<>>
                          ELSE RetainedSamples(resolved_cols)
              IN  IF kept = <<>>
                  THEN gene_expr = EmptyFrame /\ load_labels = EmptySeries
                  ELSE /\ gene_expr.index =
                             [k \in 1..Len(kept) |-> <<gse.name, k - 1>>]
                       /\ Len(gene_expr.values) = Len(kept)
                       /\ load_labels.index = gene_expr.index
                       /\ load_labels.values =
                             [k \in 1..Len(kept) |->
                                 GetSampleLabels(gse.gsms[kept[k]].metadata,
                                                 disease_label)]

\* of two samples the first has no table and is passed over; the second
\* gives the row <cohortId>_0 and its label
C16_Witness ==
    /\ pc = "done"
    /\ load_status = "returned"
    /\ Len(gse.gsms) = 2
    /\ gse.gsms[1].table = <<>>
    /\ gene_expr.index = <<<<gse.name, 0>>>>
    /\ load_labels.values = <<disease_label>>

\* the platform table has an ID column and a gene_assignment column, no
\* gene-symbol column, and at least one row
AnnotatedByAssignment ==
    /\ pc = "done"
    /\ load_status = "returned"
    /\ gse.gpls /= <<>>
    /\ gse.gpls[1].columns = <<N_ID, N_gene_assignment>>
    /\ gse.gpls[1].rows /= <<>>

\* C17: with a gene_assignment column and no gene-symbol column, each probe
\* is mapped to the token extract_gene_from_assignment takes from its
\* assignment text (the empty text, i.e. unmapped, when there is none); the
\* raw assignment text is never the gene symbol.
C17_AssignmentTokensUsed ==
    AnnotatedByAssignment =>
        LET rows == gse.gpls[1].rows
        IN  /\ DOMAIN probe_to_gene = {rows[r][1].s : r \in 1..Len(rows)}
            /\ \A r \in 1..Len(rows) :
                  StrOf(probe_to_gene[rows[r][1].s]) =
                      ExtractGeneFromAssignment(rows[r][2])

\* C18: every cell of the matrix load_single_gse returns is a number; no
\* NaN cell is retained, also when the samples report different sets of
\* identifiers.
C18_NoMissingCells ==
    (pc = "done" /\ load_status = "returned") =>
        \A r \in 1..NRows(gene_expr), c \in 1..NCols(gene_expr) :
            gene_expr.values[r][c] /= NaN

----------------------------------------------------------------------------
(* Claims about load_ad_training_data / load_oa_training_data, checked    *)
(* under SpecTrain                                                         *)

\* what loading the cohort with id j yields
Outcome(j) == LoadSingleGse(GseId(j), Catalogue(j), disease_label)

\* positions of out, the outcomes of the ids tried so far, that returned a
\* matrix with at least one row and one column, in the order of the request
LoadedPositions(out) ==
    SelectSeq([i \in 1..Len(out) |-> i],
              LAMBDA i : /\ out[i].status = "returned"
                         /\ NRows(out[i].expr) > 0
                         /\ NCols(out[i].expr) > 0)

\* positions of out that raised
FailedPositions(out) ==
    SelectSeq([i \in 1..Len(out) |-> i],
              LAMBDA i : out[i].status /= "returned")

\* C10: a load that raises is reported as a warning for that cohort only and
\* the loop goes on to the remaining ids; merge_and_batch_correct is invoked
\* once, after every id has been tried, on exactly the cohorts that loaded
\* with at least one row and one column, in the order of the ids; when no
\* cohort loaded the result is an empty matrix and empty labels.
C10_FailuresIsolated ==
    LET out    == [i \in 1..next_id |-> Outcome(ids[i])]
        loaded == LoadedPositions(out)
        failed == FailedPositions(out)
    IN  /\ merge_calls = (IF pc = "done" THEN 1 ELSE 0)
        /\ pc \in {"merge", "done"} => next_id = Len(ids)
        /\ expr_list = [i \in 1..Len(loaded) |-> out[loaded[i]].expr]
        /\ label_list = [i \in 1..Len(loaded) |-> out[loaded[i]].labels]
        /\ load_warnings = [i \in 1..Len(failed) |-> ids[failed[i]]]
        /\ (pc = "done" /\ loaded = <<>>) =>
               /\ merge_status = "returned"
               /\ expr_merged = EmptyFrame
               /\ labels_merged = EmptySeries

\* three cohorts were requested, the second failed, and the merger returned
\* the rows of the first and the third
C10_Witness ==
    /\ pc = "done"
    /\ Len(ids) = 3
    /\ load_warnings = <<ids[2]>>
    /\ Len(expr_list) = 2
    /\ merge_calls = 1
    /\ merge_status = "returned"
    /\ NRows(expr_merged) = NRows(expr_list[1]) + NRows(expr_list[2])

\* every requested cohort failed or came back empty, and the merger returned
\* the empty result
C10_WitnessAllFail ==
    /\ pc = "done"
    /\ Len(ids) = 2
    /\ Len(load_warnings) = 2
    /\ expr_list = <<>>
    /\ merge_status = "returned"
    /\ expr_merged = EmptyFrame

\* the cohort a loaded matrix comes from: its row ids are <cohort id>_<k>
CohortOf(expr) == expr.index[1][1]

\* C24: the batch ids handed to merge_and_batch_correct are as many as the
\* matrices handed to it, and the i-th batch id is the id of the cohort the
\* i-th matrix was loaded from, also when a requested cohort failed to load
\* or loaded empty and was left out.
C24_BatchIdsPositional ==
    pc \in {"merge", "done"} =>
        /\ Len(batch_ids) = Len(expr_list)
        /\ \A i \in 1..Len(expr_list) :
              CohortOf(expr_list[i]) = GseId(batch_ids[i])

----------------------------------------------------------------------------
(* Claims about the column inference of utils.py, checked under SpecInfer *)

\* the columns of tbl whose name is the given name when case is ignored
ColumnsNamedNoCase(tbl, name) ==
    {col \in Range(tbl.columns) : Upper(col) = Upper(name)}

\* the names of the priority list that some column matches when case is
\* ignored, in the order of the list
MatchedNoCase(names, tbl) ==
    SelectSeq(names, LAMBDA name : ColumnsNamedNoCase(tbl, name) /= {})

\* the identifier-column names the claim lists
ListedIdNames == <<N_ID_REF, N_ID, N_PROBEID, N_REF>>

\* C21: on a table with at least one column infer_id_column does not fail;
\* it returns a column whose name is, case ignored, the highest-priority
\* name of the list ID_REF, ID, PROBEID, REF that any column matches, and
\* the first column of the table only when no column matches a listed name.
C21_IdColumnIgnoresCase ==
    (id_col /= <<>> /\ Len(infer_table.columns) >= 1) =>
        LET matched == MatchedNoCase(ListedIdNames, infer_table)
        IN  /\ id_col[1].status = "returned"
            /\ IF matched /= <<>>
               THEN id_col[1].col
                        \in ColumnsNamedNoCase(infer_table, matched[1])
               ELSE id_col[1].col = infer_table.columns[1]

\* the least element of a non-empty set of naturals
Least(S) == CHOOSE m \in S : \A k \in S : m <= k

\* positions of the known value-column names that are columns of tbl
KnownValuePositions(tbl) ==
    {i \in 1..Len(ValueColumnNames) : HasColumn(tbl, ValueColumnNames[i])}

\* positions of the numeric columns of tbl that are not identifier-like
NumericPositions(tbl) ==
    {c \in 1..Len(tbl.columns) :
        /\ Upper(tbl.columns[c]) \notin {N_ID_REF, N_ID, N_PROBEID, N_REF}
        /\ \A r \in 1..Len(tbl.rows) : tbl.rows[r][c].k /= "str"}

\* the column the three steps of the claim select, <<>> when the table has
\* no column for the last step
ClaimedValueColumn(tbl) ==
    IF KnownValuePositions(tbl) /= {}
    THEN <<ValueColumnNames[Least(KnownValuePositions(tbl))]>>
    ELSE IF NumericPositions(tbl) /= {}
    THEN <<tbl.columns[Least(NumericPositions(tbl))]>>
    ELSE IF Len(tbl.columns) >= 2 THEN <<tbl.columns[2]>>
    ELSE <<>>

\* C22: infer_value_column returns the highest-priority known value-column
\* name present in the table, else the first numeric column that is not
\* identifier-like, else the second column; on every table with at least
\* one column, a single-column table included, it returns a column of the
\* table.
C22_ValueColumnTotal ==
    (val_col /= <<>> /\ Len(infer_table.columns) >= 1) =>
        /\ val_col[1].status = "returned"
        /\ val_col[1].col \in Range(infer_table.columns)
        /\ ClaimedValueColumn(infer_table) /= <<>> =>
              val_col[1].col = ClaimedValueColumn(infer_table)[1]

----------------------------------------------------------------------------
(* Claims about the common genes of two analyses, checked under SpecCoDegs *)

\* find_common_degs has returned for the tables of the two analyses
CoDegsReturned == pc = "done" /\ degs1 /= <<>> /\ degs2 /= <<>>

\* C23: for the tables of two runs of differential_expression_analysis,
\* matrices with a repeated column label included, the upregulated and the
\* downregulated list find_common_degs returns share no gene, and the list
\* 'all' holds no gene twice.
C23_CoDegsDisjoint ==
    CoDegsReturned =>
        /\ Range(co_degs.upregulated) \cap Range(co_degs.downregulated) = {}
        /\ \A i, j \in 1..Len(co_degs.all) :
              co_degs.all[i] = co_degs.all[j] => i = j

\* both analyses returned, with one gene up and another gene down in both
C23_Witness ==
    /\ CoDegsReturned
    /\ co_degs.upregulated /= <<>>
    /\ co_degs.downregulated /= <<>>
    /\ Len(co_degs.all) = 2

====
